---------------------------- MODULE Spec2Model ----------------------------
(***************************************************************************)
(* Model of lvgl-codegen (src/lvgl-codegen/src/lib.rs): the generator that *)
(* groups bindgen declarations into widgets and lowers each declaration    *)
(* into a wrapper operation.                                               *)
(*                                                                         *)
(* Text (declaration names, type literals) is modelled as sequences of     *)
(* one-character strings, so that starts_with / contains / replace and the *)
(* widget-name regex are computed the way the code computes them.          *)
(* Emitted token streams are records: one record per emitted operation,    *)
(* whose body is the sequence of its statements in emission order.         *)
(***************************************************************************)
EXTENDS Naturals, Sequences, FiniteSets, TLC

VARIABLES
    functions,      \* CodeGen.functions: the loaded declarations, in source order
    widget_names,   \* extract_widgets' local: the result of get_widget_names
    widgets,        \* CodeGen.widgets: Vec<LvWidget>, in HashMap::values() order
    modules,        \* LvWidget::code of every widget of get_widgets(), in order
    prev_modules,   \* the output of the previous run on the same input text
    run,            \* which run of the pipeline on the input text this is
    pc,             \* position of the pipeline / of the lowering harness
    func,           \* lowering harness: the LvFunc under test
    parent,         \* lowering harness: the LvWidget passed to LvFunc::code
    lowered,        \* lowering harness: the WrapperResult of func.code(&parent)
    code,           \* the input text given to CodeGen::from, as its tokens
    exec            \* a run of an emitted operation: position, heap, variables

vars == <<functions, widget_names, widgets, modules, prev_modules, run, pc,
          func, parent, lowered, code, exec>>

---------------------------------------------------------------------------
(* Bounds of the model *)

\* longest declaration list the pipeline is run on
MaxDecls == 2

\* most parameters of a declaration given to the lowering harness
MaxArgs == 3

\* longest method list of the widget given to the widget harness
MaxMethods == 3

\* most top-level items of an input text, most foreign items in all its blocks
MaxItems == 2
MaxForeign == 2

---------------------------------------------------------------------------
(* Text primitives (Rust str methods) *)

Range(s) == {s[i] : i \in DOMAIN s}

\* str::starts_with
StartsWith(s, p) == Len(p) <= Len(s) /\ SubSeq(s, 1, Len(p)) = p

\* str::ends_with
EndsWith(s, p) == Len(p) <= Len(s) /\ SubSeq(s, Len(s) - Len(p) + 1, Len(s)) = p

\* str::contains
Contains(s, p) ==
    \E i \in 1..(Len(s) + 1) : i + Len(p) - 1 <= Len(s) /\ SubSeq(s, i, i + Len(p) - 1) = p

\* str::replace(pat, ""): every non-overlapping match, scanning left to right
RECURSIVE StrRemoveAll(_, _)
StrRemoveAll(s, p) ==
    IF Len(s) < Len(p) \/ p = <<>> THEN s
    ELSE IF StartsWith(s, p) THEN StrRemoveAll(SubSeq(s, Len(p) + 1, Len(s)), p)
    ELSE <<Head(s)>> \o StrRemoveAll(Tail(s), p)

\* TokenStream::to_string: the tokens separated by single spaces
RECURSIVE Spaced(_)
Spaced(toks) ==
    IF toks = <<>> THEN <<>>
    ELSE IF Len(toks) = 1 THEN toks[1]
    ELSE toks[1] \o <<" ">> \o Spaced(Tail(toks))

---------------------------------------------------------------------------
(* Literals of the source *)

LIB_PREFIX == <<"l", "v", "_">>
SEP == <<"_">>
CREATE == <<"c", "r", "e", "a", "t", "e">>
OBJ == <<"o", "b", "j">>
NEW_FN == <<"n", "e", "w">>
LV_OBJ_T == <<"l", "v", "_", "o", "b", "j", "_", "t">>
ULV_OBJ_T == <<"_">> \o LV_OBJ_T
STAR == <<"*">>
KW_MUT == <<"m", "u", "t">>
KW_CONST == <<"c", "o", "n", "s", "t">>
CTY == <<"c", "t", "y">>
COLON2 == <<":", ":">>
C_CHAR == <<"c", "_", "c", "h", "a", "r">>
C_VOID == <<"c", "_", "v", "o", "i", "d">>

CONST_PREFIX == KW_CONST \o <<" ">>
CONST_STR == Spaced(<<STAR, KW_CONST, CTY, COLON2, C_CHAR>>)
MUT_STR == Spaced(<<STAR, KW_MUT, CTY, COLON2, C_CHAR>>)
CONST_OBJ == Spaced(<<STAR, KW_CONST, LV_OBJ_T>>)
CONST_OBJ_ALT == Spaced(<<STAR, KW_CONST, ULV_OBJ_T>>)
MUT_OBJ == Spaced(<<STAR, KW_MUT, LV_OBJ_T>>)
MUT_OBJ_ALT == Spaced(<<STAR, KW_MUT, ULV_OBJ_T>>)
ARRAY_PREFIX == Spaced(<<STAR, KW_MUT, STAR>>)
STAR_CONST_SP == Spaced(<<STAR, KW_CONST>>) \o <<" ">>
STAR_MUT_SP == Spaced(<<STAR, KW_MUT>>) \o <<" ">>
STAR_MUT == Spaced(<<STAR, KW_MUT>>)
VOID_NAME == Spaced(<<CTY, COLON2, C_VOID>>)

---------------------------------------------------------------------------
(* LvType *)

\* Option<LvType>: None is the empty sequence, Some(t) is <<t>>
None == <<>>
Some(t) == <<t>>

IsConst(lit) == StartsWith(lit, CONST_PREFIX)
IsConstStr(lit) == lit = CONST_STR
IsMutStr(lit) == lit = MUT_STR
IsConstNativeObject(lit) == lit = CONST_OBJ \/ lit = CONST_OBJ_ALT
IsMutNativeObject(lit) == lit = MUT_OBJ \/ lit = MUT_OBJ_ALT
\* mutant of IsPointer: tests is_array's pattern instead of the leading `*`
IsPointer_ArrayPattern(lit) == StartsWith(lit, ARRAY_PREFIX)

IsPointer(lit) == StartsWith(lit, STAR)
IsArray(lit) == StartsWith(lit, ARRAY_PREFIX)

\* syn::parse_str::<TypePath>: a path starts with an identifier, `::` or `<`;
\* the empty text and texts starting with `*`, `[`, `(`, `&`, `!` are other
\* kinds of type (or none) and are rejected
ParsesAsTypePath(s) == s # <<>> /\ Head(s) \notin {"*", "[", "(", "&", "!"}

\* the type a parameter is declared with: [form, ref, ty]
TypeForm(form, ref, ty) == [form |-> form, ref |-> ref, ty |-> ty]

\* mutant of LvTypeCode: starts_with("*") is tested before starts_with("* mut"),
\* so every other pointer is declared as a shared reference
LvTypeCode_StarFirst(lit) ==
    IF IsConstStr(lit) THEN [status |-> "ok", val |-> TypeForm("CStr", "&", <<>>)]
    ELSE IF IsMutStr(lit) THEN [status |-> "ok", val |-> TypeForm("CString", "&mut", <<>>)]
    ELSE IF IsConstNativeObject(lit)
        THEN [status |-> "ok", val |-> TypeForm("impl NativeObject", "&", <<>>)]
    ELSE IF IsMutNativeObject(lit)
        THEN [status |-> "ok", val |-> TypeForm("impl NativeObject", "&mut", <<>>)]
    ELSE IF IsArray(lit) THEN [status |-> "skip", val |-> TypeForm("", "", <<>>)]
    ELSE LET raw_name == StrRemoveAll(StrRemoveAll(lit, STAR_CONST_SP), STAR_MUT_SP)
         IN  IF raw_name = VOID_NAME THEN [status |-> "skip", val |-> TypeForm("", "", <<>>)]
             ELSE IF ~ParsesAsTypePath(raw_name)
                 THEN [status |-> "panic", val |-> TypeForm("", "", <<>>)]
             ELSE IF StartsWith(lit, STAR)
                 THEN [status |-> "ok", val |-> TypeForm("path", "&", raw_name)]
             ELSE IF StartsWith(lit, STAR_MUT)
                 THEN [status |-> "ok", val |-> TypeForm("path", "&mut", raw_name)]
             ELSE [status |-> "ok", val |-> TypeForm("path", "", raw_name)]

\* LvType::code: Ok(tokens), Err(Skip), or the panic of expect()
LvTypeCode(lit) ==
    IF IsConstStr(lit) THEN [status |-> "ok", val |-> TypeForm("CStr", "&", <<>>)]
    ELSE IF IsMutStr(lit) THEN [status |-> "ok", val |-> TypeForm("CString", "&mut", <<>>)]
    ELSE IF IsConstNativeObject(lit)
        THEN [status |-> "ok", val |-> TypeForm("impl NativeObject", "&", <<>>)]
    ELSE IF IsMutNativeObject(lit)
        THEN [status |-> "ok", val |-> TypeForm("impl NativeObject", "&mut", <<>>)]
    ELSE IF IsArray(lit) THEN [status |-> "skip", val |-> TypeForm("", "", <<>>)]
    ELSE LET raw_name == StrRemoveAll(StrRemoveAll(lit, STAR_CONST_SP), STAR_MUT_SP)
         IN  IF raw_name = VOID_NAME THEN [status |-> "skip", val |-> TypeForm("", "", <<>>)]
             ELSE IF ~ParsesAsTypePath(raw_name)
                 THEN [status |-> "panic", val |-> TypeForm("", "", <<>>)]
             ELSE IF StartsWith(lit, STAR_MUT)
                 THEN [status |-> "ok", val |-> TypeForm("path", "&mut", raw_name)]
             ELSE IF StartsWith(lit, STAR)
                 THEN [status |-> "ok", val |-> TypeForm("path", "&", raw_name)]
             ELSE [status |-> "ok", val |-> TypeForm("path", "", raw_name)]

---------------------------------------------------------------------------
(* LvArg *)

\* an identifier token: its text, a suffix appended by format_ident!, and
\* whether it is a raw identifier (r#...)
Ident(text, suffix, raw) == [text |-> text, suffix |-> suffix, raw |-> raw]

\* the parameter names that syn::parse_str::<Ident> rejects (Rust keywords)
Keywords == {"type"}

\* LvArg::get_name_ident
GetNameIdent(arg) == Ident(arg.name, "", arg.name \in Keywords)

\* mutant of GetPreprocessing: `<name>.into_raw()`, without the clone()
GetPreprocessing_NoClone(arg) ==
    IF IsMutStr(arg.typ)
    THEN << [kind |-> "let_into_raw",
             var |-> Ident(arg.name, "_raw", FALSE),
             from |-> Ident(arg.name, "", FALSE),
             clone |-> FALSE] >>
    ELSE << >>

\* LvArg::get_preprocessing: the statements emitted before the native call:
\* `let <name>_raw = <name>.clone().into_raw();`
GetPreprocessing(arg) ==
    IF IsMutStr(arg.typ)
    THEN << [kind |-> "let_into_raw",
             var |-> Ident(arg.name, "_raw", FALSE),
             from |-> Ident(arg.name, "", FALSE),
             clone |-> TRUE] >>
    ELSE << >>

\* mutant of GetPostprocessing: tests is_const_str instead of is_mut_str
GetPostprocessing_ConstStr(arg) ==
    IF IsConstStr(arg.typ)
    THEN << [kind |-> "assign_from_raw",
             var |-> Ident(arg.name, "", FALSE),
             from |-> Ident(arg.name, "_raw", FALSE)] >>
    ELSE << >>

\* mutant of GetPostprocessing: no statement is emitted after the call
GetPostprocessing_Nothing(arg) == << >>

\* LvArg::get_postprocessing: the statements emitted after the native call:
\* `*<name> = cstr_core::CString::from_raw(<name>_raw);`
GetPostprocessing(arg) ==
    IF IsMutStr(arg.typ)
    THEN << [kind |-> "assign_from_raw",
             var |-> Ident(arg.name, "", FALSE),
             from |-> Ident(arg.name, "_raw", FALSE)] >>
    ELSE << >>

\* an argument expression of the native call: an identifier and an accessor
Usage(ident, access) == [ident |-> ident, access |-> access]

\* LvArg::get_value_usage (format_ident! drops the r# of an identifier argument)
GetValueUsage(arg) ==
    LET ident == GetNameIdent(arg)
    IN  IF IsConstStr(arg.typ) THEN Usage(ident, ".as_ptr()")
        ELSE IF IsMutStr(arg.typ) THEN Usage(Ident(ident.text, "_raw", FALSE), "")
        ELSE Usage(ident, "")

\* <LvArg as Rusty>::code
LvArgCode(arg) ==
    LET typ == LvTypeCode(arg.typ)
    IN  [status |-> typ.status, val |-> [name |-> GetNameIdent(arg), typ |-> typ.val]]

---------------------------------------------------------------------------
(* LvFunc *)

\* LvFunc::is_method
IsMethod(f) ==
    IF f.args # <<>> THEN Contains(f.args[1].typ, LV_OBJ_T) ELSE FALSE

\* format_ident! panics unless the text is an identifier
ValidIdent(s) ==
    s # <<>> /\ Range(s) \cap {" ", "*", ":", "[", "]", ";", "(", ")"} = {}

\* proc_macro2's lexer behind parse_str::<TokenStream>: delimiters must pair up
RECURSIVE CountChar(_, _)
CountChar(s, c) ==
    IF s = <<>> THEN 0
    ELSE CountChar(Tail(s), c) + (IF Head(s) = c THEN 1 ELSE 0)

Tokenizes(s) ==
    /\ CountChar(s, "(") = CountChar(s, ")")
    /\ CountChar(s, "[") = CountChar(s, "]")

Ok(ops) == [status |-> "ok", ops |-> ops]
Skip == [status |-> "skip", ops |-> << >>]
Panic == [status |-> "panic", ops |-> << >>]

SelfIdent == Ident("self", "", FALSE)
UnitType == TypeForm("unit", "", <<>>)
LvResultSelf == TypeForm("crate::LvResult<Self>", "", <<>>)

\* the native call statement: lvgl_sys::callee(args), bound to `bind` if any
Call(callee, args, semi, bind) ==
    [kind |-> "call", callee |-> callee, args |-> args, semi |-> semi, bind |-> bind]

\* mutant of ConstructorOps: the else branch of create returns
\* Err(crate::LvError::Uninitialized)
ConstructorOps_OtherError(original_func_name) ==
    << [pub |-> TRUE, ident |-> CREATE,
        params |-> << [name |-> Ident("parent", "", FALSE),
                       typ |-> TypeForm("impl crate::NativeObject", "&mut", <<>>)] >>,
        ret |-> LvResultSelf,
        body |-> << Call(original_func_name,
                         << Usage(Ident("parent", "", FALSE), ".raw().as_mut()") >>,
                         TRUE, "ptr"),
                    [kind |-> "wrap_non_null_or_invalid_reference",
                     err |-> "Uninitialized"] >>],
       [pub |-> TRUE, ident |-> NEW_FN,
        params |-> << >>,
        ret |-> LvResultSelf,
        body |-> << [kind |-> "let_parent_get_scr_act"],
                    [kind |-> "self_create_parent"] >>] >>

\* the two operations of the constructor special case
ConstructorOps(original_func_name) ==
    << [pub |-> TRUE, ident |-> CREATE,
        params |-> << [name |-> Ident("parent", "", FALSE),
                       typ |-> TypeForm("impl crate::NativeObject", "&mut", <<>>)] >>,
        ret |-> LvResultSelf,
        body |-> << Call(original_func_name,
                         << Usage(Ident("parent", "", FALSE), ".raw().as_mut()") >>,
                         TRUE, "ptr"),
                    [kind |-> "wrap_non_null_or_invalid_reference",
                     err |-> "InvalidReference"] >>],
       [pub |-> TRUE, ident |-> NEW_FN,
        params |-> << >>,
        ret |-> LvResultSelf,
        body |-> << [kind |-> "let_parent_get_scr_act"],
                    [kind |-> "self_create_parent"] >>] >>

\* mutant of ReturnType: a return type that does not parse is answered with
\* Err(Skip) instead of the panic of expect()
ReturnType_FailureSkips(f) ==
    IF f.ret = None THEN [status |-> "ok", val |-> UnitType]
    ELSE IF ~IsPointer(f.ret[1])
        THEN IF Tokenizes(f.ret[1])
             THEN [status |-> "ok", val |-> TypeForm("tokens", "", f.ret[1])]
             ELSE [status |-> "skip", val |-> UnitType]
    ELSE [status |-> "skip", val |-> UnitType]

\* the return_type match: the emitted result type, Skip or panic
ReturnType(f) ==
    IF f.ret = None THEN [status |-> "ok", val |-> UnitType]
    ELSE IF ~IsPointer(f.ret[1])
        THEN IF Tokenizes(f.ret[1])
             THEN [status |-> "ok", val |-> TypeForm("tokens", "", f.ret[1])]
             ELSE [status |-> "panic", val |-> UnitType]
    ELSE [status |-> "skip", val |-> UnitType]

\* the argument check loop: the status of the first argument after self whose
\* code() is not Ok ("ok" when all are)
RECURSIVE ArgCheck(_, _)
ArgCheck(args, i) ==
    IF i > Len(args) THEN "ok"
    ELSE IF LvArgCode(args[i]).status # "ok" THEN LvArgCode(args[i]).status
    ELSE ArgCheck(args, i + 1)

\* the receiver chosen for parameter 0
Receiver(arg) ==
    IF IsConst(arg.typ)
    THEN [name |-> SelfIdent, typ |-> TypeForm("Self", "&", <<>>)]
    ELSE [name |-> SelfIdent, typ |-> TypeForm("Self", "&mut", <<>>)]

\* args_decl
ArgsDecl(f) ==
    [i \in DOMAIN f.args |-> IF i = 1 THEN Receiver(f.args[i]) ELSE LvArgCode(f.args[i]).val]

\* args_preprocessing / args_postprocessing: folds over the arguments in order
RECURSIVE ArgsPreprocessing(_, _)
ArgsPreprocessing(args, i) ==
    IF i > Len(args) THEN << >>
    ELSE (IF i = 1 THEN << >> ELSE GetPreprocessing(args[i])) \o ArgsPreprocessing(args, i + 1)

RECURSIVE ArgsPostprocessing(_, _)
ArgsPostprocessing(args, i) ==
    IF i > Len(args) THEN << >>
    ELSE (IF i = 1 THEN << >> ELSE GetPostprocessing(args[i])) \o ArgsPostprocessing(args, i + 1)

\* mutant of FfiArgs: no branch for const objects, every object parameter is
\* passed through the mutable accessor
FfiArgs_NoConstBranch(f, parent_name) ==
    [i \in DOMAIN f.args |->
        IF i = 1
        THEN IF parent_name = OBJ THEN Usage(SelfIdent, ".raw().as_mut()")
             ELSE Usage(SelfIdent, ".core.raw().as_mut()")
        ELSE IF IsMutNativeObject(f.args[i].typ) \/ IsConstNativeObject(f.args[i].typ)
            THEN Usage(GetValueUsage(f.args[i]).ident, ".raw().as_mut()")
        ELSE GetValueUsage(f.args[i])]

\* mutant of FfiArgs: the receiver is left out of the call (the arguments are
\* taken from iter().skip(1))
FfiArgs_SkipSelf(f, parent_name) ==
    [i \in 1..(Len(f.args) - 1) |->
        IF IsMutNativeObject(f.args[i + 1].typ)
            THEN Usage(GetValueUsage(f.args[i + 1]).ident, ".raw().as_mut()")
        ELSE IF IsConstNativeObject(f.args[i + 1].typ)
            THEN Usage(GetValueUsage(f.args[i + 1]).ident, ".raw().as_ref()")
        ELSE GetValueUsage(f.args[i + 1])]

\* mutant of FfiArgs: the receiver is addressed through `core` for every
\* widget, the root widget included
FfiArgs_CoreAlways(f, parent_name) ==
    [i \in DOMAIN f.args |->
        IF i = 1 THEN Usage(SelfIdent, ".core.raw().as_mut()")
        ELSE IF IsMutNativeObject(f.args[i].typ)
            THEN Usage(GetValueUsage(f.args[i]).ident, ".raw().as_mut()")
        ELSE IF IsConstNativeObject(f.args[i].typ)
            THEN Usage(GetValueUsage(f.args[i]).ident, ".raw().as_ref()")
        ELSE GetValueUsage(f.args[i])]

\* ffi_args
FfiArgs(f, parent_name) ==
    [i \in DOMAIN f.args |->
        IF i = 1
        THEN IF parent_name = OBJ THEN Usage(SelfIdent, ".raw().as_mut()")
             ELSE Usage(SelfIdent, ".core.raw().as_mut()")
        ELSE IF IsMutNativeObject(f.args[i].typ)
            THEN Usage(GetValueUsage(f.args[i]).ident, ".raw().as_mut()")
        ELSE IF IsConstNativeObject(f.args[i].typ)
            THEN Usage(GetValueUsage(f.args[i]).ident, ".raw().as_ref()")
        ELSE GetValueUsage(f.args[i])]

\* TokenStream::is_empty of return_type
ReturnTypeIsEmpty(rt) == rt.form = "tokens" /\ rt.ty = <<>>

\* the operation emitted on the generic path
GenericOp(f, parent_name, new_name, return_type) ==
    [pub |-> parent_name # OBJ,
     ident |-> new_name,
     params |-> ArgsDecl(f),
     ret |-> return_type,
     body |-> ArgsPreprocessing(f.args, 1)
              \o << Call(f.name, FfiArgs(f, parent_name), f.ret = None, "") >>
              \o ArgsPostprocessing(f.args, 1)
              \o (IF ReturnTypeIsEmpty(return_type) THEN << [kind |-> "ok_unit"] >> ELSE << >>)]

\* new_name: the declaration name with `lv_<widget>_` replaced by ""
NewName(f, parent_name) == StrRemoveAll(f.name, LIB_PREFIX \o parent_name \o SEP)

\* mutant of IsConstructor: the widget test is inverted (== instead of !=)
IsConstructor_RootOnly(new_name, parent_name) == new_name = CREATE /\ parent_name = OBJ

\* mutant of IsConstructor: the widget test is left out
IsConstructor_AnyWidget(new_name, parent_name) == new_name = CREATE

\* the test that selects the constructor special case
IsConstructor(new_name, parent_name) == new_name = CREATE /\ parent_name # OBJ

\* <LvFunc as Rusty>::code
LvFuncCode(f, p) ==
    LET new_name == NewName(f, p.name)
        rt == ReturnType(f)
    IN  IF ~ValidIdent(new_name) \/ ~ValidIdent(f.name) THEN Panic
        ELSE IF IsConstructor(new_name, p.name) THEN Ok(ConstructorOps(f.name))
        ELSE IF rt.status = "skip" THEN Skip
        ELSE IF rt.status = "panic" THEN Panic
        ELSE IF ArgCheck(f.args, 2) = "skip" THEN Skip
        ELSE IF ArgCheck(f.args, 2) = "panic" THEN Panic
        ELSE Ok(<< GenericOp(f, p.name, new_name, rt.val) >>)

---------------------------------------------------------------------------
(* LvWidget *)

\* inflector's to_pascal_case on a widget name (one lower-case word, no `_`):
\* the first letter in upper case
ToUpper(c) ==
    CASE c = "a" -> "A" [] c = "b" -> "B" [] c = "o" -> "O" [] c = "j" -> "J"
      [] OTHER -> c

\* mutant of PascalName: the name is used as it is
PascalName_AsIs(name) == name

PascalName(name) ==
    IF name = <<>> THEN name ELSE <<ToUpper(Head(name))>> \o Tail(name)

\* mutant of FlatMapCode: the first Err(Skip) ends the collection, as
\* collect::<Result<Vec<_>, _>>() would
RECURSIVE FlatMapCode_StopAtSkip(_, _, _)
FlatMapCode_StopAtSkip(w, methods, i) ==
    IF i > Len(methods) THEN << >>
    ELSE IF LvFuncCode(methods[i], w).status = "skip" THEN << >>
    ELSE LvFuncCode(methods[i], w).ops \o FlatMapCode_StopAtSkip(w, methods, i + 1)

\* self.methods.iter().flat_map(|m| m.code(self)): the operations of the methods
\* whose code() is Ok, in method order; an Err(Skip) contributes nothing
RECURSIVE FlatMapCode(_, _, _)
FlatMapCode(w, methods, i) ==
    IF i > Len(methods) THEN << >>
    ELSE LvFuncCode(methods[i], w).ops \o FlatMapCode(w, methods, i + 1)

\* the items the trait Widget declares ahead of the lowered operations
TraitItems == << "type SpecialEvent", "type Part", "unsafe fn from_raw" >>

\* <LvWidget as Rusty>::code: a trait for `obj`, define_object! + impl otherwise;
\* a panic while lowering a method unwinds through it
LvWidgetCode(w) ==
    IF \E i \in DOMAIN w.methods : LvFuncCode(w.methods[i], w).status = "panic"
    THEN [status |-> "panic", kind |-> "", name |-> w.name, type_name |-> <<>>,
          items |-> << >>, ops |-> << >>]
    ELSE [status |-> "ok",
          kind |-> IF w.name = OBJ THEN "trait Widget" ELSE "define_object + impl",
          name |-> w.name,
          type_name |-> PascalName(w.name),
          items |-> IF w.name = OBJ THEN TraitItems ELSE << >>,
          ops |-> FlatMapCode(w, w.methods, 1)]

---------------------------------------------------------------------------
(* CodeGen *)

CREATE_SUFFIX == SEP \o CREATE

\* Regex ^lv_([^_]+)_create$ : is_match
IsCreateFunc(name) ==
    /\ StartsWith(name, LIB_PREFIX)
    /\ EndsWith(name, CREATE_SUFFIX)
    /\ Len(name) > Len(LIB_PREFIX) + Len(CREATE_SUFFIX)
    /\ "_" \notin Range(SubSeq(name, Len(LIB_PREFIX) + 1, Len(name) - Len(CREATE_SUFFIX)))

\* Regex ^lv_([^_]+)_create$ : captures(..).get(1)
CaptureWidget(name) == SubSeq(name, Len(LIB_PREFIX) + 1, Len(name) - Len(CREATE_SUFFIX))

\* mutant of IsWidgetCreate: the parameter count is not tested
IsWidgetCreate_AnyArity(f) == IsCreateFunc(f.name)

\* the filter of get_widget_names
IsWidgetCreate(f) == IsCreateFunc(f.name) /\ Len(f.args) = 1

\* CodeGen::get_widget_names: filter, then map to the captured name, in order
RECURSIVE GetWidgetNames(_)
GetWidgetNames(fs) ==
    IF fs = <<>> THEN << >>
    ELSE (IF IsWidgetCreate(Head(fs)) THEN << CaptureWidget(Head(fs).name) >> ELSE << >>)
         \o GetWidgetNames(Tail(fs))

\* mutant of Attaches: is_method() is not tested
Attaches_PrefixOnly(f, widget_name) == StartsWith(f.name, LIB_PREFIX \o widget_name)

\* mutant of Attaches: contains() of the widget name instead of starts_with()
\* of the prefixed widget name
Attaches_Contains(f, widget_name) == Contains(f.name, widget_name) /\ IsMethod(f)

\* the test of extract_widgets that attaches declaration f to widget_name
Attaches(f, widget_name) == StartsWith(f.name, LIB_PREFIX \o widget_name) /\ IsMethod(f)

\* mutant of PushMethod: insert() of a fresh widget instead of entry().or_insert_with()
PushMethod_Overwrite(ws, widget_name, f) ==
    IF widget_name \in DOMAIN ws
    THEN [ws EXCEPT ![widget_name] = [name |-> widget_name, methods |-> <<f>>]]
    ELSE ws @@ (widget_name :> [name |-> widget_name, methods |-> <<f>>])

\* mutant of PushMethod: the declaration is put at the front of the method
\* list (insert(0, f)) instead of pushed at its end
PushMethod_Front(ws, widget_name, f) ==
    IF widget_name \in DOMAIN ws
    THEN [ws EXCEPT ![widget_name] = [name |-> widget_name, methods |-> <<f>> \o @.methods]]
    ELSE ws @@ (widget_name :> [name |-> widget_name, methods |-> <<f>>])

\* ws.entry(widget_name).or_insert_with(..).methods.push(f)
PushMethod(ws, widget_name, f) ==
    IF widget_name \in DOMAIN ws
    THEN [ws EXCEPT ![widget_name] = [name |-> widget_name, methods |-> Append(@.methods, f)]]
    ELSE ws @@ (widget_name :> [name |-> widget_name, methods |-> <<f>>])

\* mutant of ForWidgetNames: the entry of a widget name is made before the
\* declaration is tested (entry().or_insert_with() ahead of the `if`)
RECURSIVE ForWidgetNames_EntryFirst(_, _, _, _)
ForWidgetNames_EntryFirst(ws, f, names, j) ==
    IF j > Len(names) THEN ws
    ELSE LET entered == IF names[j] \in DOMAIN ws THEN ws
                        ELSE ws @@ (names[j] :> [name |-> names[j], methods |-> << >>])
         IN  ForWidgetNames_EntryFirst(
                 IF Attaches(f, names[j]) THEN PushMethod(entered, names[j], f) ELSE entered,
                 f, names, j + 1)

\* the inner loop of extract_widgets: for widget_name in &widget_names
RECURSIVE ForWidgetNames(_, _, _, _)
ForWidgetNames(ws, f, names, j) ==
    IF j > Len(names) THEN ws
    ELSE ForWidgetNames(IF Attaches(f, names[j]) THEN PushMethod(ws, names[j], f) ELSE ws,
                        f, names, j + 1)

\* functions.iter().fold(HashMap::new(), ..): the map from widget name to LvWidget
RECURSIVE FoldFunctions(_, _, _, _)
FoldFunctions(ws, fs, names, i) ==
    IF i > Len(fs) THEN ws
    ELSE FoldFunctions(ForWidgetNames(ws, fs[i], names, 1), fs, names, i + 1)

\* the HashMap built by extract_widgets
WidgetMap(fs) == FoldFunctions(<< >>, fs, GetWidgetNames(fs), 1)

\* widgets.values().cloned().collect(): HashMap iteration order depends on the
\* map's RandomState, so any order of the values can come out
ValueOrders(ws) ==
    LET n == Cardinality(DOMAIN ws)
    IN  { [i \in 1..n |-> ws[order[i]]] :
            order \in { o \in [1..n -> DOMAIN ws] : \A i, j \in 1..n : i # j => o[i] # o[j] } }

---------------------------------------------------------------------------
(* CodeGen::load_func_defs. The input text is a sequence of tokens, one per  *)
(* phrase of the declaration syntax: `extern "C" {`, `}`, a function         *)
(* declaration `pub fn <sig>;`, a static declaration, a struct item, a        *)
(* function item with a body, and a phrase that is no item at all.            *)

\* a token: its kind and, for a function, its signature
Tok(t, sig) == [t |-> t, sig |-> sig]
NoSig == [ident |-> << >>, inputs |-> << >>, output |-> << >>]

\* proc_macro2's lexer: the braces of the text pair up
RECURSIVE Lexes(_, _, _)
Lexes(toks, i, depth) ==
    IF i > Len(toks) THEN depth = 0
    ELSE IF toks[i].t = "extern_open" THEN Lexes(toks, i + 1, depth + 1)
    ELSE IF toks[i].t = "close" THEN depth > 0 /\ Lexes(toks, i + 1, depth - 1)
    ELSE Lexes(toks, i + 1, depth)

\* syn: the foreign items of a block, up to its closing brace
RECURSIVE ParseForeignItems(_, _, _)
ParseForeignItems(toks, i, acc) ==
    IF i > Len(toks) THEN [ok |-> FALSE, items |-> << >>, next |-> i]
    ELSE IF toks[i].t = "close" THEN [ok |-> TRUE, items |-> acc, next |-> i + 1]
    ELSE IF toks[i].t = "foreign_fn"
        THEN ParseForeignItems(toks, i + 1, Append(acc, [kind |-> "Fn", sig |-> toks[i].sig]))
    ELSE IF toks[i].t = "foreign_static"
        THEN ParseForeignItems(toks, i + 1, Append(acc, [kind |-> "Static", sig |-> NoSig]))
    ELSE [ok |-> FALSE, items |-> << >>, next |-> i]

\* syn: the items of a file
RECURSIVE ParseItems(_, _, _)
ParseItems(toks, i, acc) ==
    IF i > Len(toks) THEN [ok |-> TRUE, items |-> acc]
    ELSE IF toks[i].t = "struct"
        THEN ParseItems(toks, i + 1, Append(acc, [kind |-> "Struct", items |-> << >>]))
    ELSE IF toks[i].t = "fn_item"
        THEN ParseItems(toks, i + 1, Append(acc, [kind |-> "Fn", items |-> << >>]))
    ELSE IF toks[i].t = "extern_open"
        THEN LET fm == ParseForeignItems(toks, i + 1, << >>)
             IN  IF fm.ok
                 THEN ParseItems(toks, fm.next, Append(acc, [kind |-> "ForeignMod", items |-> fm.items]))
                 ELSE [ok |-> FALSE, items |-> << >>]
    ELSE [ok |-> FALSE, items |-> << >>]

\* syn::parse_str::<syn::File>
ParseFile(toks) ==
    IF Lexes(toks, 1, 0) THEN ParseItems(toks, 1, << >>) ELSE [ok |-> FALSE, items |-> << >>]

\* impl From<ForeignItemFn> for LvFunc: the name, the typed inputs in order
\* (pattern and type rendered with to_token_stream().to_string()), the output
LvFuncFrom(sig) ==
    [name |-> sig.ident,
     args |-> [i \in DOMAIN sig.inputs |->
                 [name |-> sig.inputs[i].pat, typ |-> Spaced(sig.inputs[i].ty)]],
     ret |-> IF sig.output = << >> THEN None ELSE Some(Spaced(sig.output[1]))]

\* the flat_map over the items of one foreign block: its functions, in order
RECURSIVE ForeignFns(_)
ForeignFns(items) ==
    IF items = << >> THEN << >>
    ELSE (IF Head(items).kind = "Fn" THEN << Head(items).sig >> ELSE << >>)
         \o ForeignFns(Tail(items))

\* filter_map(ForeignMod) and flat_map(ForeignItem::Fn) over the items of the file
RECURSIVE AllForeignFns(_)
AllForeignFns(items) ==
    IF items = << >> THEN << >>
    ELSE (IF Head(items).kind = "ForeignMod" THEN ForeignFns(Head(items).items) ELSE << >>)
         \o AllForeignFns(Tail(items))

\* mutant of CollectFns: the filter on LIB_PREFIX is left out
RECURSIVE CollectFns_NoPrefixFilter(_)
CollectFns_NoPrefixFilter(sigs) ==
    IF sigs = << >> THEN << >>
    ELSE << LvFuncFrom(Head(sigs)) >> \o CollectFns_NoPrefixFilter(Tail(sigs))

\* filter(starts_with(LIB_PREFIX)), map(into), collect
RECURSIVE CollectFns(_)
CollectFns(sigs) ==
    IF sigs = << >> THEN << >>
    ELSE (IF StartsWith(Head(sigs).ident, LIB_PREFIX) THEN << LvFuncFrom(Head(sigs)) >> ELSE << >>)
         \o CollectFns(Tail(sigs))

\* mutant of LoadFuncDefs: a text that does not parse gives an empty list
LoadFuncDefs_ErrIsEmpty(bindgen_code) ==
    LET ast == ParseFile(bindgen_code)
    IN  IF ~ast.ok THEN [ok |-> TRUE, fns |-> << >>]
        ELSE [ok |-> TRUE, fns |-> CollectFns(AllForeignFns(ast.items))]

\* CodeGen::load_func_defs: Err when the text does not parse (the `?`)
LoadFuncDefs(bindgen_code) ==
    LET ast == ParseFile(bindgen_code)
    IN  IF ~ast.ok THEN [ok |-> FALSE, fns |-> << >>]
        ELSE [ok |-> TRUE, fns |-> CollectFns(AllForeignFns(ast.items))]

---------------------------------------------------------------------------
(* Inputs *)

\* widget names used by the inputs: the root widget, a one-letter widget and a
\* widget whose name the one-letter name is a prefix of
WA == <<"a">>
WAB == <<"a", "b">>

\* declaration names
N_OBJ_CREATE == LIB_PREFIX \o OBJ \o CREATE_SUFFIX
N_A_CREATE == LIB_PREFIX \o WA \o CREATE_SUFFIX
N_AB_CREATE == LIB_PREFIX \o WAB \o CREATE_SUFFIX
N_A_X == LIB_PREFIX \o WA \o SEP \o <<"x">>
\* `lv_a_b_create`: the text before `_create` holds a separator
N_A_B_CREATE == LIB_PREFIX \o WA \o SEP \o <<"b">> \o CREATE_SUFFIX
\* `lv__create`: nothing between the prefix and `_create`
N_EMPTY_CREATE == LIB_PREFIX \o CREATE_SUFFIX
\* `lv_a_lv_a_create`: `lv_a_` occurs twice
N_A_A_CREATE == LIB_PREFIX \o WA \o SEP \o N_A_CREATE
\* `lv_a_new`: a method whose derived name is `new`
N_A_NEW == LIB_PREFIX \o WA \o SEP \o NEW_FN

\* type literals, as LvType::from renders them
U16 == <<"u", "1", "6">>
U8 == <<"u", "8">>
MUT_PTR_ARRAY == Spaced(<<STAR, KW_MUT, STAR, KW_CONST, CTY, COLON2, C_CHAR>>)
CONST_PTR_PTR == Spaced(<<STAR, KW_CONST, STAR, KW_CONST, CTY, COLON2, C_CHAR>>)
MUT_VOID == Spaced(<<STAR, KW_MUT, VOID_NAME>>)
CONST_U8 == Spaced(<<STAR, KW_CONST, U8>>)
MUT_U8 == Spaced(<<STAR, KW_MUT, U8>>)
U8_ARRAY == Spaced(<< <<"[">>, U8, <<";">>, <<"4">>, <<"]">> >>)
\* `[ u8`: a literal whose bracket is not closed (LvType::new takes any text)
UNCLOSED == Spaced(<< <<"[">>, U8 >>)

\* parameter names by position (bindgen gives a declaration distinct names)
ArgName(i) ==
    IF i = 1 THEN "obj" ELSE IF i = 2 THEN "buf" ELSE IF i = 3 THEN "type" ELSE "val"

\* LvArg::new for each type of a list, LvFunc::new
MkArgs(types) == [i \in DOMAIN types |-> [name |-> ArgName(i), typ |-> types[i]]]
LvFuncNew(name, args, ret) == [name |-> name, args |-> args, ret |-> ret]

\* the lowering harness: one declaration and the widget it is lowered under
ReceiverTypes == {MUT_OBJ, CONST_OBJ, MUT_OBJ_ALT, CONST_OBJ_ALT, MUT_STR, U16}
ArgTypes == {MUT_OBJ, CONST_OBJ, CONST_OBJ_ALT, MUT_STR, CONST_STR, MUT_PTR_ARRAY,
             CONST_PTR_PTR, MUT_VOID, CONST_U8, MUT_U8, U16, U8_ARRAY}
LowerTypeLists ==
    {<< >>} \cup UNION { { <<r>> \o t : r \in ReceiverTypes, t \in [1..(n - 1) -> ArgTypes] } :
                         n \in 1..MaxArgs }
LowerNames == {N_A_X, N_A_CREATE, N_OBJ_CREATE, N_A_A_CREATE}
LowerParents == {OBJ, WA}
LowerRets == {None, Some(U16), Some(MUT_OBJ)}
\* the same declaration with another name for parameter 0
RenameReceiver(f) == [f EXCEPT !.args[1].name = ArgName(4)]

\* the pipeline: a declaration list
PipeNames == {N_OBJ_CREATE, N_A_CREATE, N_AB_CREATE, N_A_X, N_A_B_CREATE,
              N_EMPTY_CREATE, N_A_A_CREATE}
PipeTypeLists == {<< >>, <<MUT_OBJ>>, <<U16>>, <<MUT_OBJ, U16>>}
\* every name with every parameter list and no return value, every name in
\* the shape of the library's create functions (one object parameter, an
\* object pointer returned), and the method lv_a_new(obj)
PipeDecls ==
    { LvFuncNew(n, MkArgs(ts), None) : n \in PipeNames, ts \in PipeTypeLists }
        \cup { LvFuncNew(n, MkArgs(<<MUT_OBJ>>), Some(MUT_OBJ)) : n \in PipeNames }
        \cup { LvFuncNew(N_A_NEW, MkArgs(<<MUT_OBJ>>), None) }
DeclLists == UNION { [1..n -> PipeDecls] : n \in 0..MaxDecls }

\* the loader: signatures as syn holds them (types are token lists)
TY_MUT_OBJ == <<STAR, KW_MUT, LV_OBJ_T>>
TY_U16 == <<U16>>
\* `a_lv_x`: the library prefix occurs in the name, but not at its start
N_NO_PREFIX == <<"a", "_">> \o LIB_PREFIX \o <<"x">>
SIG_A_CREATE ==
    [ident |-> N_A_CREATE, inputs |-> << [pat |-> "obj", ty |-> TY_MUT_OBJ] >>,
     output |-> << TY_MUT_OBJ >>]
SIG_A_X ==
    [ident |-> N_A_X,
     inputs |-> << [pat |-> "obj", ty |-> TY_MUT_OBJ], [pat |-> "val", ty |-> TY_U16] >>,
     output |-> << >>]
SIG_NO_PREFIX ==
    [ident |-> N_NO_PREFIX, inputs |-> << [pat |-> "obj", ty |-> TY_MUT_OBJ] >>,
     output |-> << >>]

\* the foreign items and the top-level items an input text is written from
FOREIGN_ITEMS ==
    { [kind |-> "Fn", sig |-> sg] : sg \in {SIG_A_CREATE, SIG_A_X, SIG_NO_PREFIX} }
        \cup { [kind |-> "Static", sig |-> NoSig] }

\* the files of at most n top-level items with at most m foreign items in all
RECURSIVE Files(_, _)
Files(n, m) ==
    IF n = 0 THEN { << >> }
    ELSE { << >> }
         \cup { << [kind |-> k, items |-> << >>] >> \o rest :
                   k \in {"Struct", "Fn"}, rest \in Files(n - 1, m) }
         \cup UNION { { << [kind |-> "ForeignMod", items |-> fi] >> \o rest :
                          fi \in [1..k -> FOREIGN_ITEMS], rest \in Files(n - 1, m - k) } :
                        k \in 0..m }

\* the text of a file: what quote! and to_string() make of it
RECURSIVE ForeignTokens(_)
ForeignTokens(items) ==
    IF items = << >> THEN << >>
    ELSE << (IF Head(items).kind = "Fn" THEN Tok("foreign_fn", Head(items).sig)
             ELSE Tok("foreign_static", NoSig)) >> \o ForeignTokens(Tail(items))

RECURSIVE Tokens(_)
Tokens(items) ==
    IF items = << >> THEN << >>
    ELSE (IF Head(items).kind = "Struct" THEN << Tok("struct", NoSig) >>
          ELSE IF Head(items).kind = "Fn" THEN << Tok("fn_item", SIG_A_X) >>
          ELSE << Tok("extern_open", NoSig) >> \o ForeignTokens(Head(items).items)
               \o << Tok("close", NoSig) >>)
         \o Tokens(Tail(items))

\* a text, the text with one token lost, and the text with a struct item or a
\* phrase that is no item (`fn ;`) put in at some place
Drop(toks, k) ==
    IF k > Len(toks) THEN toks ELSE SubSeq(toks, 1, k - 1) \o SubSeq(toks, k + 1, Len(toks))
Insert(toks, k, tok) ==
    IF k > Len(toks) THEN Append(toks, tok)
    ELSE SubSeq(toks, 1, k - 1) \o << tok >> \o SubSeq(toks, k, Len(toks))

\* the places of the longest text: two braces for every top-level item and a
\* token for every foreign item
Places == 1..(MaxItems + MaxItems + MaxForeign + 1)
Texts == { Tokens(f) : f \in Files(MaxItems, MaxForeign) }
IsInputText(text) ==
    \/ text \in Texts
    \/ \E toks \in Texts, k \in Places : text = Drop(toks, k)
    \/ \E toks \in Texts, k \in Places, t \in {"struct", "junk"} :
           text = Insert(toks, k, Tok(t, NoSig))

---------------------------------------------------------------------------
(* The pipeline: CodeGen::from, then LvWidget::code of every widget *)

NotRun == [status |-> "none", ops |-> << >>]
NoFunc == LvFuncNew(<<>>, <<>>, None)
NoWidget == [name |-> <<>>, methods |-> <<>>]
NoCode == << >>
NoExec == [ip |-> 0, heap |-> << >>, env |-> << >>, passed |-> << >>]

Init ==
    /\ functions \in DeclLists
    /\ widget_names = << >>
    /\ widgets = << >>
    /\ modules = << >>
    /\ prev_modules = << >>
    /\ run = 1
    /\ pc = "loaded"
    /\ func = NoFunc
    /\ parent = NoWidget
    /\ lowered = NotRun
    /\ code = NoCode
    /\ exec = NoExec

\* CodeGen::from after load_func_defs: extract_widgets
ExtractWidgets ==
    /\ pc = "loaded"
    /\ widget_names' = GetWidgetNames(functions)
    /\ widgets' \in ValueOrders(WidgetMap(functions))
    /\ pc' = "extracted"
    /\ UNCHANGED <<functions, modules, prev_modules, run, func, parent, lowered, code, exec>>

\* the caller renders every widget of get_widgets(), in the returned order
Render ==
    /\ pc = "extracted"
    /\ modules' = [i \in DOMAIN widgets |-> LvWidgetCode(widgets[i])]
    /\ pc' = "done"
    /\ UNCHANGED <<functions, widget_names, widgets, prev_modules, run, func, parent, lowered,
                   code, exec>>

\* the generator is run again on the same input text
Rerun ==
    /\ pc = "done"
    /\ run = 1
    /\ prev_modules' = modules
    /\ run' = 2
    /\ widget_names' = << >>
    /\ widgets' = << >>
    /\ modules' = << >>
    /\ pc' = "loaded"
    /\ UNCHANGED <<functions, func, parent, lowered, code, exec>>

Next == ExtractWidgets \/ Render \/ Rerun

Spec == Init /\ [][Next]_vars

---------------------------------------------------------------------------
(* The lowering harness: LvFunc::code of one declaration under one widget *)

InitLower ==
    /\ \E n \in LowerNames, ts \in LowerTypeLists, r \in LowerRets :
           \/ func = LvFuncNew(n, MkArgs(ts), r)
           \/ Len(ts) \in 1..2 /\ func = RenameReceiver(LvFuncNew(n, MkArgs(ts), r))
           \/ Len(ts) \in 0..2 /\ func = LvFuncNew(n, MkArgs(ts), Some(UNCLOSED))
    /\ parent \in { [name |-> p, methods |-> << >>] : p \in LowerParents }
    /\ lowered = NotRun
    /\ pc = "lower"
    /\ functions = << >>
    /\ widget_names = << >>
    /\ widgets = << >>
    /\ modules = << >>
    /\ prev_modules = << >>
    /\ run = 0
    /\ code = NoCode
    /\ exec = NoExec

\* func.code(&parent)
Lower ==
    /\ pc = "lower"
    /\ lowered' = LvFuncCode(func, parent)
    /\ pc' = "lowered"
    /\ UNCHANGED <<functions, widget_names, widgets, modules, prev_modules, run, func, parent,
                   code, exec>>

NextLower == Lower

SpecLower == InitLower /\ [][NextLower]_vars

---------------------------------------------------------------------------
(* The widget harness: LvWidget::code of one widget with a method list *)

\* the declarations attached to widget w: a method and a create function, with
\* parameter lists that lower, that are skipped (void pointer) and that abort
\* (an array type is no type path); and each in the shape of a create function
WidgetTypeLists == {<<MUT_OBJ>>, <<MUT_OBJ, U16>>, <<MUT_OBJ, MUT_VOID>>, <<MUT_OBJ, U8_ARRAY>>}
WidgetDeclsOf(w) ==
    LET names == {LIB_PREFIX \o w \o SEP \o <<"x">>, LIB_PREFIX \o w \o CREATE_SUFFIX}
    IN  { LvFuncNew(n, MkArgs(ts), None) : n \in names, ts \in WidgetTypeLists }
            \cup { LvFuncNew(n, MkArgs(<<MUT_OBJ>>), Some(MUT_OBJ)) : n \in names }

InitWidget ==
    /\ \E w \in LowerParents, n \in 0..MaxMethods :
           \E ms \in [1..n -> WidgetDeclsOf(w)] : parent = [name |-> w, methods |-> ms]
    /\ pc = "widget"
    /\ modules = << >>
    /\ func = NoFunc
    /\ lowered = NotRun
    /\ functions = << >>
    /\ widget_names = << >>
    /\ widgets = << >>
    /\ prev_modules = << >>
    /\ run = 0
    /\ code = NoCode
    /\ exec = NoExec

\* parent.code(&())
CodeWidget ==
    /\ pc = "widget"
    /\ modules' = << LvWidgetCode(parent) >>
    /\ pc' = "coded"
    /\ UNCHANGED <<functions, widget_names, widgets, prev_modules, run, func, parent,
                   lowered, code, exec>>

NextWidget == CodeWidget

SpecWidget == InitWidget /\ [][NextWidget]_vars

---------------------------------------------------------------------------
(* The loader: CodeGen::from on an input text *)

InitLoad ==
    /\ IsInputText(code)
    /\ pc = "text"
    /\ functions = << >>
    /\ widget_names = << >>
    /\ widgets = << >>
    /\ modules = << >>
    /\ prev_modules = << >>
    /\ run = 1
    /\ func = NoFunc
    /\ parent = NoWidget
    /\ lowered = NotRun
    /\ exec = NoExec

\* CodeGen::from: `let functions = Self::load_func_defs(code)?;` returns the
\* error, or goes on to extract_widgets with the functions
CodeGenFrom ==
    /\ pc = "text"
    /\ LET loaded == LoadFuncDefs(code)
       IN  IF loaded.ok
           THEN functions' = loaded.fns /\ pc' = "loaded"
           ELSE functions' = << >> /\ pc' = "failed"
    /\ UNCHANGED <<widget_names, widgets, modules, prev_modules, run, func, parent,
                   lowered, code, exec>>

NextLoad == CodeGenFrom \/ ExtractWidgets

SpecLoad == InitLoad /\ [][NextLoad]_vars

---------------------------------------------------------------------------
(* A run of an emitted operation: the statements of the body emitted by     *)
(* LvFunc::code, executed in order on a heap of string allocations.         *)
(* heap[a] is allocation a: the variables that own it (a CString owns its   *)
(* allocation, a raw pointer owns nothing) and how often it was freed.      *)
(* env maps a variable to the allocation it holds or points to.             *)

\* the declarations whose emitted operation is run
ExecReceiverTypes == {MUT_OBJ, MUT_STR}
ExecArgTypes == {MUT_STR, CONST_STR, MUT_OBJ, U16}
ExecTypeLists ==
    UNION { { <<r>> \o t : r \in ExecReceiverTypes, t \in [1..(n - 1) -> ExecArgTypes] } :
            n \in 1..MaxArgs }
ExecRets == {None, Some(U16)}

\* the parameters declared `&mut cstr_core::CString`: the caller's buffers
Buffers(f) ==
    { i \in DOMAIN f.args : i >= 2 /\ LvTypeCode(f.args[i].typ).val.form = "CString" }

\* on entry every buffer owns an allocation of its own; the buffer is known to
\* the body under the identifier its parameter was declared with
RECURSIVE EntryHeap(_, _)
EntryHeap(f, i) ==
    IF i > Len(f.args) THEN << >>
    ELSE (IF i \in Buffers(f)
          THEN << [owners |-> {GetNameIdent(f.args[i])}, frees |-> 0] >>
          ELSE << >>) \o EntryHeap(f, i + 1)

EntryEnv(f) ==
    LET heap == EntryHeap(f, 1)
    IN  [id \in { GetNameIdent(f.args[i]) : i \in Buffers(f) } |->
            CHOOSE a \in DOMAIN heap : heap[a].owners = {id}]

InitExec ==
    /\ func \in { LvFuncNew(N_A_X, MkArgs(ts), r) : ts \in ExecTypeLists, r \in ExecRets }
    /\ parent \in { [name |-> p, methods |-> << >>] : p \in LowerParents }
    /\ lowered = LvFuncCode(func, parent)
    /\ exec = [ip |-> 1, heap |-> EntryHeap(func, 1), env |-> EntryEnv(func), passed |-> << >>]
    /\ pc = "exec"
    /\ functions = << >>
    /\ widget_names = << >>
    /\ widgets = << >>
    /\ modules = << >>
    /\ prev_modules = << >>
    /\ run = 0
    /\ code = NoCode

\* the statement the run is at, if any
AtStatement(kind) ==
    /\ pc = "exec"
    /\ lowered.status = "ok"
    /\ exec.ip \in DOMAIN lowered.ops[1].body
    /\ lowered.ops[1].body[exec.ip].kind = kind

\* `let <name>_raw = <name>.clone().into_raw();` : clone() makes a new
\* allocation owned by a temporary CString, into_raw() gives that ownership up
\* and leaves a raw pointer. (Without the clone, into_raw() would take the
\* buffer's own allocation.)
ExecLetIntoRaw ==
    /\ AtStatement("let_into_raw")
    /\ LET st == lowered.ops[1].body[exec.ip]
       IN  /\ st.from \in DOMAIN exec.env
           /\ IF st.clone
              THEN exec' = [exec EXCEPT
                       !.heap = Append(@, [owners |-> {}, frees |-> 0]),
                       !.env = (st.var :> (Len(exec.heap) + 1)) @@ @,
                       !.ip = @ + 1]
              ELSE exec' = [exec EXCEPT
                       !.heap = [@ EXCEPT ![exec.env[st.from]].owners = @ \ {st.from}],
                       !.env = (st.var :> exec.env[st.from]) @@ @,
                       !.ip = @ + 1]
    /\ UNCHANGED <<functions, widget_names, widgets, modules, prev_modules, run, pc,
                   func, parent, lowered, code>>

\* `lvgl_sys::<native>(<args>)`: the native function reads and writes through
\* the pointers it is given and neither frees nor keeps them. A call without
\* `;` is an expression: it must be the last statement of the body.
ExecCall ==
    /\ AtStatement("call")
    /\ LET st == lowered.ops[1].body[exec.ip]
       IN  /\ st.semi \/ exec.ip = Len(lowered.ops[1].body)
           /\ exec' = [exec EXCEPT
                  !.passed = [i \in DOMAIN st.args |->
                                IF st.args[i].ident \in DOMAIN exec.env
                                THEN exec.env[st.args[i].ident] ELSE 0],
                  !.ip = @ + 1]
    /\ UNCHANGED <<functions, widget_names, widgets, modules, prev_modules, run, pc,
                   func, parent, lowered, code>>

\* `*<name> = cstr_core::CString::from_raw(<name>_raw);` : from_raw() makes a
\* CString that owns the pointed-to allocation; the assignment drops the
\* value the buffer held (freeing its allocation) and stores the new one
ExecAssignFromRaw ==
    /\ AtStatement("assign_from_raw")
    /\ LET st == lowered.ops[1].body[exec.ip]
       IN  /\ st.var \in DOMAIN exec.env
           /\ st.from \in DOMAIN exec.env
           /\ LET old == exec.env[st.var]
                  new == exec.env[st.from]
                  dropped == [exec.heap EXCEPT ![old].owners = @ \ {st.var},
                                               ![old].frees = @ + 1]
              IN  exec' = [exec EXCEPT
                      !.heap = [dropped EXCEPT ![new].owners = @ \cup {st.var}],
                      !.env = [@ EXCEPT ![st.var] = new],
                      !.ip = @ + 1]
    /\ UNCHANGED <<functions, widget_names, widgets, modules, prev_modules, run, pc,
                   func, parent, lowered, code>>

\* the end of the body: the operation returns to its caller
ExecReturn ==
    /\ pc = "exec"
    /\ lowered.status = "ok"
    /\ exec.ip = Len(lowered.ops[1].body) + 1
    /\ pc' = "returned"
    /\ UNCHANGED <<functions, widget_names, widgets, modules, prev_modules, run,
                   func, parent, lowered, code, exec>>

NextExec == ExecLetIntoRaw \/ ExecCall \/ ExecAssignFromRaw \/ ExecReturn

SpecExec == InitExec /\ [][NextExec]_vars

---------------------------------------------------------------------------
(* A run of the emitted constructor operations `create(parent)` and `new()` *)
(* against a native constructor and an active screen given by the           *)
(* environment. Handles are numbers; 0 is the null pointer.                 *)

NULL == 0
\* the object the caller of create() passes, and the active screen
USER_PARENT == 1
SCREEN == 2
\* the handle of the widget the native constructor makes under a parent
NewHandle(p) == p + 2

\* a result value: Ok(v) holds v, Err(e) and a panic hold nothing
OkVal(v) == [ok |-> TRUE, val |-> <<v>>, err |-> ""]
ErrVal(e) == [ok |-> FALSE, val |-> << >>, err |-> e]
Panicked == [ok |-> FALSE, val |-> << >>, err |-> "panic"]

\* <crate::Obj as Widget>::from_raw: a handle-construction operation from a raw
\* non-null native handle; the object wraps the handle
FromRaw(raw) == Some([raw |-> raw])

\* crate::display::get_scr_act(): the active screen, or an error
GetScrActOutcomes == {OkVal(SCREEN), ErrVal("Uninitialized"), ErrVal("InvalidReference")}

\* what the native constructor can do: for each parent, a null pointer or the
\* handle of a new widget
NativeConstructors ==
    [{USER_PARENT, SCREEN} -> BOOLEAN]

\* the declarations that take the constructor path, each with its widget: the
\* one-parameter create function and the two-parameter one of the test
CtorDecls ==
    { [f |-> LvFuncNew(n, MkArgs(ts), Some(MUT_OBJ)), w |-> WA] :
        n \in {N_A_CREATE, N_A_A_CREATE}, ts \in {<<MUT_OBJ>>, <<MUT_OBJ, CONST_OBJ>>} }
    \cup { [f |-> LvFuncNew(N_AB_CREATE, MkArgs(ts), Some(MUT_OBJ)), w |-> WAB] :
             ts \in {<<MUT_OBJ>>, <<MUT_OBJ, CONST_OBJ>>} }

\* the operation `ident` of the emitted impl block
OpNamed(ident) == CHOOSE i \in DOMAIN lowered.ops : lowered.ops[i].ident = ident

InitCtor ==
    /\ \E d \in CtorDecls :
           /\ func = d.f
           /\ parent = [name |-> d.w, methods |-> << >>]
    /\ lowered = LvFuncCode(func, parent)
    /\ \E entry \in {CREATE, NEW_FN}, nat \in NativeConstructors, scr \in GetScrActOutcomes :
           exec = [entry |-> entry,
                   op |-> OpNamed(entry),
                   ip |-> 1,
                   env |-> IF entry = CREATE THEN [v \in {"parent"} |-> USER_PARENT]
                           ELSE << >>,
                   native_null |-> nat,
                   scr_act |-> scr,
                   calls |-> << >>,
                   result |-> None]
    /\ pc = "ctor"
    /\ functions = << >>
    /\ widget_names = << >>
    /\ widgets = << >>
    /\ modules = << >>
    /\ prev_modules = << >>
    /\ run = 0
    /\ code = NoCode

\* the statement the run of the constructor is at
CtorAt(kind) ==
    /\ pc = "ctor"
    /\ exec.ip \in DOMAIN lowered.ops[exec.op].body
    /\ lowered.ops[exec.op].body[exec.ip].kind = kind

CtorUnchanged ==
    UNCHANGED <<functions, widget_names, widgets, modules, prev_modules, run, func, parent,
                lowered, code>>

\* `let mut parent = crate::display::get_scr_act()?;` : an error is returned
\* to the caller of new() at once
CtorGetScrAct ==
    /\ CtorAt("let_parent_get_scr_act")
    /\ IF exec.scr_act.ok
       THEN /\ exec' = [exec EXCEPT !.env = ("parent" :> exec.scr_act.val[1]) @@ @,
                                    !.ip = @ + 1]
            /\ pc' = pc
       ELSE /\ exec' = [exec EXCEPT !.result = Some(ErrVal(exec.scr_act.err))]
            /\ pc' = "ctor_returned"
    /\ CtorUnchanged

\* `Self::create(&mut parent)` : the tail expression of new(); its value is the
\* value of create run on new()'s parent
CtorSelfCreate ==
    /\ CtorAt("self_create_parent")
    /\ "parent" \in DOMAIN exec.env
    /\ exec' = [exec EXCEPT !.op = OpNamed(CREATE),
                            !.ip = 1,
                            !.env = [v \in {"parent"} |-> exec.env["parent"]]]
    /\ pc' = pc
    /\ CtorUnchanged

\* `let ptr = lvgl_sys::<native>(parent.raw().as_mut());`
CtorNativeCall ==
    /\ CtorAt("call")
    /\ LET st == lowered.ops[exec.op].body[exec.ip]
           args == [i \in DOMAIN st.args |-> exec.env[st.args[i].ident.text]]
       IN  /\ \A i \in DOMAIN st.args : st.args[i].ident.text \in DOMAIN exec.env
           /\ exec' = [exec EXCEPT
                  !.calls = Append(@, [callee |-> st.callee, args |-> args]),
                  !.env = (st.bind :> (IF exec.native_null[args[1]] THEN NULL
                                       ELSE NewHandle(args[1]))) @@ @,
                  !.ip = @ + 1]
    /\ pc' = pc
    /\ CtorUnchanged

\* `if let Some(raw) = NonNull::new(ptr) { let core = from_raw(raw).unwrap();
\*  Ok(Self { core }) } else { Err(crate::LvError::<err>) }`
CtorWrap ==
    /\ CtorAt("wrap_non_null_or_invalid_reference")
    /\ "ptr" \in DOMAIN exec.env
    /\ LET st == lowered.ops[exec.op].body[exec.ip]
           ptr == exec.env["ptr"]
       IN  exec' = [exec EXCEPT !.result =
                       IF ptr = NULL THEN Some(ErrVal(st.err))
                       ELSE IF FromRaw(ptr) = None THEN Some(Panicked)
                       ELSE Some(OkVal([core |-> FromRaw(ptr)[1]]))]
    /\ pc' = "ctor_returned"
    /\ CtorUnchanged

NextCtor == CtorGetScrAct \/ CtorSelfCreate \/ CtorNativeCall \/ CtorWrap

SpecCtor == InitCtor /\ [][NextCtor]_vars

---------------------------------------------------------------------------
(* Properties of the lowering (checked under SpecLower) *)

\* the harness has run and the declaration was lowered on the generic path:
\* exactly one operation was emitted
LoweredGeneric == pc = "lowered" /\ lowered.status = "ok" /\ Len(lowered.ops) = 1

\* the harness has run and the declaration did not take the constructor path
OffConstructorPath ==
    pc = "lowered" /\ ~(NewName(func, parent.name) = CREATE /\ parent.name # OBJ)

\* the positions of the statements of `body` of kind `kind`
StepsOfKind(body, kind) == { k \in DOMAIN body : body[k].kind = kind }

\* C1: on the generic path, a const object pointer as parameter 0 gives the
\* receiver `&self`, a mutable object pointer gives `&mut self`.
C1_ReceiverFollowsConstness ==
    (LoweredGeneric /\ func.args # << >>) =>
        LET receiver == lowered.ops[1].params[1]
        IN  /\ receiver.name = SelfIdent
            /\ func.args[1].typ \in {CONST_OBJ, CONST_OBJ_ALT} => receiver.typ.ref = "&"
            /\ func.args[1].typ \in {MUT_OBJ, MUT_OBJ_ALT} => receiver.typ.ref = "&mut"

\* C2: on the generic path the body holds one native call; every parameter
\* after the receiver of type `* mut cty :: c_char` has exactly one pre-step
\* `let <name>_raw = <name>.clone().into_raw()` before the call and exactly one
\* post-step `*<name> = CString::from_raw(<name>_raw)` after it, and the call
\* receives `<name>_raw` in that parameter's position; no other parameter has a
\* pre-step or a post-step.
C2_StringHandoffOrder ==
    LoweredGeneric =>
        LET body == lowered.ops[1].body
            calls == StepsOfKind(body, "call")
            PreOf(a) == { k \in StepsOfKind(body, "let_into_raw") :
                            body[k].var.text = a.name /\ body[k].var.suffix = "_raw"
                            /\ body[k].from.text = a.name /\ body[k].from.suffix = "" }
            PostOf(a) == { k \in StepsOfKind(body, "assign_from_raw") :
                            body[k].var.text = a.name /\ body[k].var.suffix = ""
                            /\ body[k].from.text = a.name /\ body[k].from.suffix = "_raw" }
            handed == { i \in DOMAIN func.args : i >= 2 /\ func.args[i].typ = MUT_STR }
        IN  /\ Cardinality(calls) = 1
            /\ \A i \in handed : \A c \in calls :
                   /\ Cardinality(PreOf(func.args[i])) = 1
                   /\ Cardinality(PostOf(func.args[i])) = 1
                   /\ \A k \in PreOf(func.args[i]) : k < c
                   /\ \A k \in PostOf(func.args[i]) : k > c
                   /\ body[c].callee = func.name
                   /\ body[c].args[i].ident.text = func.args[i].name
                   /\ body[c].args[i].ident.suffix = "_raw"
                   /\ body[c].args[i].access = ""
            /\ \A i \in DOMAIN func.args \ handed :
                   PreOf(func.args[i]) = {} /\ PostOf(func.args[i]) = {}
            /\ Cardinality(StepsOfKind(body, "let_into_raw")) = Cardinality(handed)
            /\ Cardinality(StepsOfKind(body, "assign_from_raw")) = Cardinality(handed)

\* C2, witness: a declaration with two mutable-string parameters was lowered
C2_Witness ==
    /\ LoweredGeneric
    /\ Len(func.args) = 3
    /\ func.args[2].typ = MUT_STR
    /\ func.args[3].typ = MUT_STR
    /\ Len(lowered.ops[1].body) = 5

\* C3: a declaration whose return type literal begins with `*` and that is not
\* on the constructor path is skipped and emits nothing, whatever its parameters.
C3_PointerReturnSkipped ==
    (OffConstructorPath /\ func.ret # None /\ Head(func.ret[1]) = "*") =>
        lowered.status = "skip" /\ lowered.ops = << >>

\* C3, witness: a three-parameter method returning a pointer was skipped under
\* a non-root widget
C3_Witness ==
    /\ pc = "lowered"
    /\ func.name = N_A_X
    /\ parent.name = WA
    /\ func.ret = Some(MUT_OBJ)
    /\ Len(func.args) = 3
    /\ lowered.status = "skip"

\* a pointer-to-pointer literal (of any constness) or a pointer to c_void
UnsupportedShape(lit) ==
    \/ \E q1, q2 \in {KW_MUT, KW_CONST} : StartsWith(lit, Spaced(<<STAR, q1, STAR>>))
    \/ \E q \in {KW_MUT, KW_CONST} : lit = Spaced(<<STAR, q, VOID_NAME>>)

\* C4: on the generic path, a declaration with a parameter (after the receiver)
\* that is a pointer to a pointer, of any constness, or a pointer to c_void is
\* skipped (stated for the runs that do not abort on an unparsable type).
C4_UnsupportedShapesSkipped ==
    (/\ OffConstructorPath
     /\ lowered.status # "panic"
     /\ \E i \in DOMAIN func.args : i >= 2 /\ UnsupportedShape(func.args[i].typ)) =>
        lowered.status = "skip"

\* the declaration is on the constructor path of a non-root widget
OnConstructorPath ==
    pc = "lowered" /\ parent.name # OBJ /\ NewName(func, parent.name) = CREATE

\* the callees of the native calls in the body of an operation
Callees(op) == { op.body[k].callee : k \in StepsOfKind(op.body, "call") }

\* the shape of the two synthesized operations, `create(parent)` calling
\* `native` and a zero-argument `new()`
IsConstructorPair(ops, native) ==
    /\ Len(ops) = 2
    /\ ops[1].ident = CREATE
    /\ Len(ops[1].params) = 1
    /\ ops[1].params[1].name.text = "parent"
    /\ Callees(ops[1]) = {native}
    /\ Len(ops[1].body[1].args) = 1
    /\ ops[1].ret = LvResultSelf
    /\ ops[2].ident = NEW_FN
    /\ ops[2].params = << >>
    /\ ops[2].ret = LvResultSelf

RemoveFirst(s, p) ==
    IF ~\E i \in 1..(Len(s) - Len(p) + 1) : SubSeq(s, i, i + Len(p) - 1) = p THEN s
    ELSE LET i == CHOOSE i \in 1..(Len(s) - Len(p) + 1) :
                      /\ SubSeq(s, i, i + Len(p) - 1) = p
                      /\ \A j \in 1..(i - 1) : SubSeq(s, j, j + Len(p) - 1) # p
         IN  SubSeq(s, 1, i - 1) \o SubSeq(s, i + Len(p), Len(s))

\* C15: the emitted operation name is the declaration name with only the first
\* occurrence of `lv_W_` removed, any later occurrence kept: a generic
\* operation carries that name, and the constructor pair is emitted only for a
\* declaration for which that name is `create`.
C15_FirstOccurrenceRemoved ==
    (pc = "lowered" /\ lowered.status = "ok") =>
        LET derived == RemoveFirst(func.name, LIB_PREFIX \o parent.name \o <<"_">>)
        IN  IF Len(lowered.ops) = 1
            THEN lowered.ops[1].ident = derived
            ELSE derived = CREATE /\ lowered.ops[1].ident = CREATE

\* the identifier a parameter is declared and used under
NamedAs(ident, arg) == ident.text = arg.name /\ ident.suffix = ""

\* C16: on the generic path, for every parameter after the receiver:
\* `* const cty :: c_char` is declared `&cstr_core::CStr` and passed as
\* `<name>.as_ptr()`; `* const lv_obj_t` / `* const _lv_obj_t` is declared
\* `&impl NativeObject` and passed as `<name>.raw().as_ref()`; `* mut lv_obj_t`
\* / `* mut _lv_obj_t` is declared `&mut impl NativeObject` and passed as
\* `<name>.raw().as_mut()`.
C16_StringAndObjectParameters ==
    LoweredGeneric =>
        LET op == lowered.ops[1]
            call == op.body[CHOOSE k \in DOMAIN op.body : op.body[k].kind = "call"]
            Lowered(i, form, ref, access) ==
                /\ op.params[i].typ = [form |-> form, ref |-> ref, ty |-> << >>]
                /\ NamedAs(op.params[i].name, func.args[i])
                /\ NamedAs(call.args[i].ident, func.args[i])
                /\ call.args[i].access = access
        IN  \A i \in DOMAIN func.args :
                i >= 2 =>
                    /\ func.args[i].typ = CONST_STR => Lowered(i, "CStr", "&", ".as_ptr()")
                    /\ func.args[i].typ \in {CONST_OBJ, CONST_OBJ_ALT} =>
                           Lowered(i, "impl NativeObject", "&", ".raw().as_ref()")
                    /\ func.args[i].typ \in {MUT_OBJ, MUT_OBJ_ALT} =>
                           Lowered(i, "impl NativeObject", "&mut", ".raw().as_mut()")

\* C16, witness: a declaration with a const string and a const object
\* parameter was lowered on the generic path
C16_Witness ==
    /\ LoweredGeneric
    /\ Len(func.args) = 3
    /\ func.args[2].typ = CONST_STR
    /\ func.args[3].typ = CONST_OBJ
    /\ lowered.ops[1].params[3].typ.ref = "&"

\* C17: on the generic path, a declaration with no return type is emitted with
\* result type `()` and the native call in statement form; a declaration whose
\* return type literal does not begin with `*` is emitted with that type as
\* result and the native call, without `;`, as the final expression of the body.
C17_ReturnMapping ==
    LoweredGeneric =>
        LET op == lowered.ops[1]
            calls == StepsOfKind(op.body, "call")
        IN  /\ func.ret = None =>
                   op.ret = UnitType /\ \A c \in calls : op.body[c].semi
            /\ func.ret # None =>
                   /\ op.ret.ty = func.ret[1]
                   /\ \A c \in calls : ~op.body[c].semi /\ c = Len(op.body)

---------------------------------------------------------------------------
(* Properties of the pipeline (checked under Spec) *)

Extracted == pc \in {"extracted", "done"}

\* every piece of text that follows the first three characters (the length of
\* the library prefix) of the name of a declaration: only such a text X can
\* make a name equal to lv_X_create, have lv_X as a prefix, or be the name of
\* an extracted widget
AfterPrefix(s) == { SubSeq(s, 4, j) : j \in 3..Len(s) }
NameParts == UNION { AfterPrefix(functions[k].name) : k \in DOMAIN functions }

\* the names a widget can have: non-empty, no separator
WidgetLike == { X \in NameParts : X # << >> /\ "_" \notin Range(X) }

\* C5: get_widget_names returns exactly the identifiers X, non-empty and free
\* of `_`, for which a declaration named lv_X_create with exactly one parameter
\* exists.
C5_WidgetDiscovery ==
    Extracted =>
        Range(widget_names) =
            { X \in WidgetLike :
                \E k \in DOMAIN functions :
                    /\ functions[k].name = LIB_PREFIX \o X \o <<"_">> \o CREATE
                    /\ Len(functions[k].args) = 1 }

\* C5, witness: one widget was discovered while a two-parameter create of
\* another widget was passed over
C5_Witness ==
    /\ Extracted
    /\ widget_names = <<WA>>
    /\ \E k \in DOMAIN functions :
           functions[k].name = N_AB_CREATE /\ Len(functions[k].args) = 2

\* the modules rendered for the root widget
RootModules == { i \in DOMAIN modules : modules[i].name = OBJ }

\* C7, as stated: the module of the root widget holds no operation named
\* `create` and none named `new`, whatever the signature of lv_obj_create is.
C7_RootHasNoCreate ==
    pc = "done" =>
        \A i \in RootModules : \A o \in DOMAIN modules[i].ops :
            modules[i].ops[o].ident \notin {CREATE, NEW_FN}

\* C7, amended: the module of the root widget never holds a synthesized
\* constructor; an operation named `create` is in it only as an ordinary
\* method (`fn create(&mut self, ..)`, no `pub`) lowered on the generic path
\* from a declaration that does not return a pointer.
C7_RootHasNoConstructor ==
    pc = "done" =>
        \A i \in RootModules : \A o \in DOMAIN modules[i].ops :
            LET op == modules[i].ops[o]
            IN  /\ op.ret # LvResultSelf
                /\ op.ident = CREATE =>
                       /\ ~op.pub
                       /\ Len(op.params) >= 1
                       /\ op.params[1].name = SelfIdent
                       /\ \E k \in DOMAIN functions :
                              /\ functions[k].name \in Callees(op)
                              /\ functions[k].ret = None \/ Head(functions[k].ret[1]) # "*"

\* C7, witness: lv_obj_create returning a pointer was attached to the root
\* widget and the root module came out empty
C7_Witness ==
    /\ pc = "done"
    /\ \E i \in RootModules :
           /\ modules[i].status = "ok"
           /\ modules[i].ops = << >>
           /\ widgets[i].methods = << LvFuncNew(N_OBJ_CREATE, MkArgs(<<MUT_OBJ>>), Some(MUT_OBJ)) >>

\* C8: two runs on the same input text produce the same output: the same
\* sequence of widgets and, within each, the same sequence of operations.
C8_Idempotent ==
    (run = 2 /\ pc = "done") => modules = prev_modules

\* f is in the method list of the widget named W
AttachedTo(W, f) ==
    \E i \in DOMAIN widgets :
        widgets[i].name = W /\ \E m \in DOMAIN widgets[i].methods : widgets[i].methods[m] = f

\* text p is a textual prefix of s
HasTextPrefix(s, p) == \E n \in 0..Len(s) : SubSeq(s, 1, n) = p

\* f has a parameter and the literal of its first parameter contains lv_obj_t
FirstParamIsObject(f) ==
    /\ Len(f.args) >= 1
    /\ \E i \in 1..(Len(f.args[1].typ) - 7) : SubSeq(f.args[1].typ, i, i + 7) = LV_OBJ_T

\* C9, as stated: f is attached to the discovered widget W iff its name has the
\* prefix `lv_W_` and its first parameter's literal contains `lv_obj_t`.
C9_GroupingWithSeparator ==
    Extracted =>
        \A W \in Range(widget_names) : \A k \in DOMAIN functions :
            AttachedTo(W, functions[k]) <=>
                /\ HasTextPrefix(functions[k].name, LIB_PREFIX \o W \o <<"_">>)
                /\ FirstParamIsObject(functions[k])

\* C9, amended: f is attached to the discovered widget W iff its name has the
\* prefix `lv_W` (the library prefix and the widget name, no separator
\* required after it) and its first parameter's literal contains `lv_obj_t`.
C9_GroupingPredicate ==
    Extracted =>
        \A W \in Range(widget_names) : \A k \in DOMAIN functions :
            AttachedTo(W, functions[k]) <=>
                /\ HasTextPrefix(functions[k].name, LIB_PREFIX \o W)
                /\ FirstParamIsObject(functions[k])

\* C9, witness: lv_ab_create was attached to widget `a`, and a declaration
\* with the prefix `lv_a` was not (its first parameter is no object)
C9_Witness ==
    /\ Extracted
    /\ \E k \in DOMAIN functions :
           functions[k].name = N_AB_CREATE /\ AttachedTo(WA, functions[k])
    /\ \E k \in DOMAIN functions :
           /\ HasTextPrefix(functions[k].name, LIB_PREFIX \o WA)
           /\ ~AttachedTo(WA, functions[k])

\* the module of widget W holds a synthesized constructor operation
HasConstructor(W) ==
    \E i \in DOMAIN modules :
        /\ modules[i].name = W
        /\ \E o \in DOMAIN modules[i].ops :
               modules[i].ops[o].ident \in {CREATE, NEW_FN} /\ modules[i].ops[o].ret = LvResultSelf

\* a declaration named lv_W_create with exactly one parameter is present
HasOneParamCreate(W) ==
    \E k \in DOMAIN functions :
        /\ functions[k].name = LIB_PREFIX \o W \o <<"_">> \o CREATE
        /\ Len(functions[k].args) = 1

\* C10, as stated: a non-root widget W (of the output) has an emitted
\* constructor iff a declaration named lv_W_create with exactly one parameter
\* is present.
C10_ConstructorIffOneParamCreate ==
    pc = "done" =>
        \A W \in { widgets[i].name : i \in DOMAIN widgets } \ {OBJ} :
            HasConstructor(W) <=> HasOneParamCreate(W)

\* C10, amended: a non-root widget name W has an emitted constructor iff a
\* declaration named lv_W_create with exactly one parameter is present and
\* some declaration whose derived identifier under W is `create` has a first
\* parameter whose literal contains `lv_obj_t`.
C10_ConstructorExistence ==
    pc = "done" =>
        \A W \in WidgetLike \ {OBJ} :
            HasConstructor(W) <=>
                /\ HasOneParamCreate(W)
                /\ \E k \in DOMAIN functions :
                       /\ StrRemoveAll(functions[k].name, LIB_PREFIX \o W \o <<"_">>) = CREATE
                       /\ FirstParamIsObject(functions[k])

\* C10, witness: widget `a` was discovered from a one-parameter lv_a_create
\* that is no method, and its constructor came from a two-parameter lv_a_create
C10_Witness ==
    /\ pc = "done"
    /\ HasConstructor(WA)
    /\ \A k \in DOMAIN functions : functions[k].name = N_A_CREATE
    /\ \E k \in DOMAIN functions : functions[k].args = MkArgs(<<U16>>)
    /\ \E k \in DOMAIN functions : functions[k].args = MkArgs(<<MUT_OBJ, U16>>)

\* C20: whenever extract_widgets attaches one declaration to two distinct
\* widgets, the name of one of the two widgets is a textual prefix of the
\* name of the other.
C20_MultipleAttachmentOnlyUnderPrefix ==
    Extracted =>
        \A i, j \in DOMAIN widgets : \A k \in DOMAIN functions :
            (/\ widgets[i].name # widgets[j].name
             /\ AttachedTo(widgets[i].name, functions[k])
             /\ AttachedTo(widgets[j].name, functions[k])) =>
                \/ HasTextPrefix(widgets[i].name, widgets[j].name)
                \/ HasTextPrefix(widgets[j].name, widgets[i].name)

\* C20, witness: lv_ab_create was attached to widget `a` and to widget `ab`
C20_Witness ==
    /\ Extracted
    /\ \E k \in DOMAIN functions :
           /\ functions[k].name = N_AB_CREATE
           /\ AttachedTo(WA, functions[k])
           /\ AttachedTo(WAB, functions[k])

---------------------------------------------------------------------------
(* Properties of a run of an emitted operation (checked under SpecExec) *)

\* the run has reached the end of the body
Returned == pc = "returned"

\* allocation a has exactly one owner and was never freed
OwnedOnce(a) == Cardinality(exec.heap[a].owners) = 1 /\ exec.heap[a].frees = 0

\* allocation a has no owner and was freed exactly once
FreedOnce(a) == exec.heap[a].owners = {} /\ exec.heap[a].frees = 1

\* C11: when a run of the emitted body reaches its end, every string
\* allocation is owned by exactly one owner or was freed exactly once (none is
\* leaked, none freed twice), and each caller's buffer is the one owner of the
\* allocation that was passed to the native function in its position.
C11_OwnershipAfterHandoff ==
    Returned =>
        /\ \A a \in DOMAIN exec.heap : OwnedOnce(a) \/ FreedOnce(a)
        /\ \A i \in Buffers(func) :
               /\ i \in DOMAIN exec.passed
               /\ exec.passed[i] \in DOMAIN exec.heap
               /\ exec.heap[exec.passed[i]].owners = {GetNameIdent(func.args[i])}
               /\ exec.heap[exec.passed[i]].frees = 0
               /\ exec.env[GetNameIdent(func.args[i])] = exec.passed[i]

\* C11, witness: a run with a mutable-string parameter reached the end of the
\* body: the buffer's first allocation was freed, the buffer owns the second
C11_Witness ==
    /\ Returned
    /\ Buffers(func) = {2}
    /\ Len(exec.heap) = 2
    /\ FreedOnce(1)
    /\ OwnedOnce(2)
    /\ exec.passed[2] = 2

\* the temporary `<name>_raw` of parameter i
RawOf(i) == Ident(func.args[i].name, "_raw", FALSE)

\* the allocation buffer i owned when the operation was entered
EntryAlloc(i) == EntryEnv(func)[GetNameIdent(func.args[i])]

\* the run is between the pre-step and the post-step of buffer i
InHandoff(i) ==
    /\ pc = "exec"
    /\ lowered.status = "ok"
    /\ RawOf(i) \in DOMAIN exec.env
    /\ \E k \in StepsOfKind(lowered.ops[1].body, "assign_from_raw") :
           lowered.ops[1].body[k].from = RawOf(i) /\ exec.ip <= k

\* C19, as stated: between the pre-step and the post-step of a mutable-string
\* parameter the temporary (and so the pointer handed to the native function)
\* is the raw pointer of the caller's own buffer allocation, and the caller's
\* buffer owns no allocation.
C19_OwnershipMovedOut ==
    \A i \in Buffers(func) :
        InHandoff(i) =>
            /\ exec.env[RawOf(i)] = EntryAlloc(i)
            /\ exec.heap[EntryAlloc(i)].owners = {}
            /\ exec.passed # << >> => exec.passed[i] = EntryAlloc(i)

\* C19, amended: between the pre-step and the post-step the temporary (and so
\* the pointer handed to the native function) is the raw pointer of a copy of
\* the buffer, an allocation of its own that has no owner; the caller's buffer
\* still owns the allocation it came with, which is not handed over.
C19_CopyHandedOver ==
    \A i \in Buffers(func) :
        InHandoff(i) =>
            /\ exec.env[RawOf(i)] # EntryAlloc(i)
            /\ exec.heap[exec.env[RawOf(i)]] = [owners |-> {}, frees |-> 0]
            /\ exec.heap[EntryAlloc(i)] = [owners |-> {GetNameIdent(func.args[i])}, frees |-> 0]
            /\ exec.env[GetNameIdent(func.args[i])] = EntryAlloc(i)
            /\ exec.passed # << >> => exec.passed[i] = exec.env[RawOf(i)]

\* C19, witness: the native call has been made with the temporary of buffer 2
\* and the post-step is about to run
C19_Witness ==
    /\ 2 \in Buffers(func)
    /\ InHandoff(2)
    /\ exec.passed # << >>
    /\ exec.passed[2] = 2
    /\ lowered.ops[1].body[exec.ip].kind = "assign_from_raw"

---------------------------------------------------------------------------
(* Properties of LvWidget::code (checked under SpecWidget) *)

Coded == pc = "coded"

\* the lowering of method i of the widget under test
MethodCode(i) == LvFuncCode(parent.methods[i], parent)

\* the methods of the widget under test whose lowering returned Skip / aborted
SkippedMethods == { i \in DOMAIN parent.methods : MethodCode(i).status = "skip" }
AbortedMethods == { i \in DOMAIN parent.methods : MethodCode(i).status = "panic" }

\* the number of operations the non-skipped methods before method i emit,
\* codes being the lowerings of the methods
RECURSIVE OpsBefore(_, _)
OpsBefore(codes, i) ==
    IF i <= 1 THEN 0
    ELSE OpsBefore(codes, i - 1)
         + (IF codes[i - 1].status = "skip" THEN 0 ELSE Len(codes[i - 1].ops))

\* the module holds exactly the operations of the non-skipped methods, each
\* method's operations at the place its predecessors leave it
HoldsNonSkippedInOrder(m) ==
    LET codes == [i \in DOMAIN parent.methods |-> MethodCode(i)]
        before == [i \in 1..(Len(parent.methods) + 1) |-> OpsBefore(codes, i)]
    IN  /\ Len(m.ops) = before[Len(parent.methods) + 1]
        /\ \A i \in DOMAIN parent.methods :
               codes[i].status # "skip" =>
                   \A k \in DOMAIN codes[i].ops : m.ops[before[i] + k] = codes[i].ops[k]

\* C12, as stated: LvWidget::code returns Ok for every widget, and the module
\* holds exactly the operations of the methods whose lowering did not return
\* Skip, in method-list order.
C12_AlwaysOk ==
    Coded => modules[1].status = "ok" /\ HoldsNonSkippedInOrder(modules[1])

\* C12, amended: unless the lowering of one of its methods aborts on a type
\* that fails to parse, LvWidget::code returns Ok and the module holds exactly
\* the operations of the methods whose lowering did not return Skip, in
\* method-list order; when one aborts, LvWidget::code returns nothing.
C12_SkipIsRecoverable ==
    Coded =>
        IF AbortedMethods = {}
        THEN modules[1].status = "ok" /\ HoldsNonSkippedInOrder(modules[1])
        ELSE modules[1].status = "panic" /\ modules[1].ops = << >>

\* C12, witness: the second of three methods was skipped and the operations of
\* the first and the third were emitted
C12_Witness ==
    /\ Coded
    /\ Len(parent.methods) = 3
    /\ SkippedMethods = {2}
    /\ AbortedMethods = {}
    /\ modules[1].status = "ok"
    /\ modules[1].ops = MethodCode(1).ops \o MethodCode(3).ops
    /\ Len(modules[1].ops) = 2

\* C18: the widget named `obj` is assembled as the trait Widget, declaring the
\* associated types SpecialEvent and Part and from_raw, with every non-skipped
\* lowered operation and no `pub` on any of them; every other widget is
\* assembled as define_object!(<PascalName>) and an impl block in which every
\* emitted operation is `pub`.
C18_InterfaceVersusConcrete ==
    (Coded /\ modules[1].status = "ok") =>
        LET m == modules[1]
        IN  /\ HoldsNonSkippedInOrder(m)
            /\ parent.name = OBJ =>
                   /\ m.kind = "trait Widget"
                   /\ { m.items[k] : k \in DOMAIN m.items }
                          = {"type SpecialEvent", "type Part", "unsafe fn from_raw"}
                   /\ \A o \in DOMAIN m.ops : ~m.ops[o].pub
            /\ parent.name # OBJ =>
                   /\ m.kind = "define_object + impl"
                   /\ m.items = << >>
                   /\ parent.name = WA => m.type_name = <<"A">>
                   /\ \A o \in DOMAIN m.ops : m.ops[o].pub

\* C18, witness: a widget other than `obj` was assembled from a create
\* function and a method: three operations (create, new, the method), all `pub`
C18_Witness ==
    /\ Coded
    /\ parent.name = WA
    /\ modules[1].status = "ok"
    /\ modules[1].type_name = <<"A">>
    /\ Len(modules[1].ops) = 3
    /\ modules[1].ops[1].ident = CREATE
    /\ modules[1].ops[3].ident = <<"x">>

---------------------------------------------------------------------------
(* Properties of the loader (checked under SpecLoad) *)

\* how many blocks are open after token i of the text
RECURSIVE OpenBlocks(_)
OpenBlocks(i) ==
    IF i = 0 THEN 0
    ELSE OpenBlocks(i - 1)
         + (IF code[i].t = "extern_open" THEN 1 ELSE 0)
         - (IF code[i].t = "close" /\ OpenBlocks(i - 1) > 0 THEN 1 ELSE 0)

\* the text is well-formed declaration syntax: every token is an item where
\* it stands (function and static declarations inside a block, other items
\* and blocks outside), and every block is closed
WellFormed ==
    /\ OpenBlocks(Len(code)) = 0
    /\ \A i \in DOMAIN code :
           \/ code[i].t \in {"foreign_fn", "foreign_static", "close"} /\ OpenBlocks(i - 1) = 1
           \/ code[i].t \in {"struct", "fn_item", "extern_open"} /\ OpenBlocks(i - 1) = 0

\* C13: when the input text is not well-formed, load_func_defs returns an
\* error and CodeGen::from returns it without running widget extraction: no
\* function list and no widget list is produced.
C13_MalformedInputIsFatal ==
    ~WellFormed =>
        /\ pc \in {"text", "failed"}
        /\ ~LoadFuncDefs(code).ok
        /\ functions = << >>
        /\ widget_names = << >>
        /\ widgets = << >>

\* C13, witness: a text with a function declaration of the library in a block
\* and a phrase that is no item was refused
C13_Witness ==
    /\ pc = "failed"
    /\ \E i \in DOMAIN code : code[i].t = "junk"
    /\ \E i \in DOMAIN code : code[i] = Tok("foreign_fn", SIG_A_CREATE)
    /\ OpenBlocks(Len(code)) = 0

\* the places of the text that hold a function declaration of the library
\* inside a block
LibraryFns ==
    { i \in DOMAIN code :
        /\ code[i].t = "foreign_fn"
        /\ OpenBlocks(i - 1) = 1
        /\ SubSeq(code[i].sig.ident, 1, 3) = <<"l", "v", "_">> }

\* the k-th of them in source order
NthLibraryFn(k) ==
    CHOOSE i \in LibraryFns : Cardinality({ j \in LibraryFns : j < i }) = k - 1

\* C14: load_func_defs returns exactly the function items inside extern blocks
\* whose name starts with `lv_`, in source order, each with its name and its
\* parameters in declared order; everything else is dropped.
C14_LoaderFilterAndOrder ==
    (WellFormed /\ pc # "text") =>
        /\ pc # "failed"
        /\ Len(functions) = Cardinality(LibraryFns)
        /\ \A k \in DOMAIN functions :
               LET sig == code[NthLibraryFn(k)].sig
               IN  /\ functions[k].name = sig.ident
                   /\ Len(functions[k].args) = Len(sig.inputs)
                   /\ \A a \in DOMAIN sig.inputs :
                          functions[k].args[a].name = sig.inputs[a].pat

\* C14, witness: of a function item outside any block and a block holding a
\* function without the prefix and lv_a_create, only lv_a_create was loaded
C14_Witness ==
    /\ pc = "loaded"
    /\ code = << Tok("fn_item", SIG_A_X), Tok("extern_open", NoSig),
                 Tok("foreign_fn", SIG_NO_PREFIX), Tok("foreign_fn", SIG_A_CREATE),
                 Tok("close", NoSig) >>
    /\ Len(functions) = 1
    /\ functions[1].name = N_A_CREATE
    /\ functions[1].args[1].name = "obj"

---------------------------------------------------------------------------
(* Properties of the method lists and the modules made of them (checked     *)
(* under Spec)                                                               *)

Rendered == pc = "done"

\* the lowerings of the methods of widget w, in method order
MethodCodes(w) == [m \in DOMAIN w.methods |-> LvFuncCode(w.methods[m], w)]

\* the methods of w stand in the order of the declaration list: of two
\* methods, the earlier one is a declaration that stands in the list no later
\* than one the later method is
InDeclarationOrder(w) ==
    \A m1, m2 \in DOMAIN w.methods :
        m1 < m2 =>
            \E k1, k2 \in DOMAIN functions :
                /\ k1 <= k2
                /\ functions[k1] = w.methods[m1]
                /\ functions[k2] = w.methods[m2]

\* the operations of module md are those of the methods of w, method by method
InMethodOrder(w, md) ==
    LET codes == MethodCodes(w)
        before == [m \in 1..(Len(w.methods) + 1) |-> OpsBefore(codes, m)]
    IN  /\ Len(md.ops) = before[Len(w.methods) + 1]
        /\ \A m \in DOMAIN w.methods :
               \A k \in DOMAIN codes[m].ops : md.ops[before[m] + k] = codes[m].ops[k]

\* C21: the method list of every widget returned by extract_widgets is in
\* declaration order (of two declarations attached to the widget, the one that
\* precedes in the input list precedes in the method list), and the operations
\* emitted for the widget appear in that same order.
C21_MethodOrder ==
    /\ Extracted => \A i \in DOMAIN widgets : InDeclarationOrder(widgets[i])
    /\ Rendered =>
           \A i \in DOMAIN widgets :
               modules[i].status = "ok" => InMethodOrder(widgets[i], modules[i])

\* C21, witness: lv_a_x stands before lv_a_create in the input; widget `a` got
\* both in that order and its module holds x, then create and new
C21_Witness ==
    /\ Rendered
    /\ Len(functions) = 2
    /\ functions[1].name = N_A_X
    /\ functions[2].name = N_A_CREATE
    /\ Len(widgets) = 1
    /\ widgets[1].name = WA
    /\ widgets[1].methods = functions
    /\ modules[1].status = "ok"
    /\ Len(modules[1].ops) = 3
    /\ modules[1].ops[1].ident = <<"x">>
    /\ modules[1].ops[2].ident = CREATE
    /\ modules[1].ops[3].ident = NEW_FN

---------------------------------------------------------------------------
(* Properties of the emitted constructors (checked under SpecCtor) *)

CtorReturned == pc = "ctor_returned"

\* what create must return for parent p: InvalidReference when the native
\* constructor returns null, the widget around the returned handle otherwise
CreateOutcome(p) ==
    IF exec.native_null[p] THEN ErrVal("InvalidReference")
    ELSE OkVal([core |-> [raw |-> NewHandle(p)]])

\* the native calls a run of create on parent p makes: the declared native
\* constructor, once, on p
CreateCalls(p) == << [callee |-> func.name, args |-> <<p>>] >>

\* C22: create returns the error InvalidReference if and only if the native
\* constructor returns a null handle and otherwise returns the wrapped widget;
\* new() first resolves the active screen, and if that fails it returns that
\* error without ever calling the native constructor, otherwise its result
\* equals create applied to the resolved screen.
C22_ConstructorOutcomes ==
    /\ (pc \in {"ctor", "ctor_returned"} /\ exec.entry = NEW_FN /\ ~exec.scr_act.ok)
           => exec.calls = << >>
    /\ CtorReturned =>
           /\ exec.result # None
           /\ exec.entry = CREATE =>
                  /\ exec.result[1] = CreateOutcome(USER_PARENT)
                  /\ exec.calls = CreateCalls(USER_PARENT)
                  /\ (exec.result[1] = ErrVal("InvalidReference"))
                         <=> exec.native_null[USER_PARENT]
           /\ exec.entry = NEW_FN =>
                  IF exec.scr_act.ok
                  THEN /\ exec.result[1] = CreateOutcome(exec.scr_act.val[1])
                       /\ exec.calls = CreateCalls(exec.scr_act.val[1])
                  ELSE /\ exec.result[1] = ErrVal(exec.scr_act.err)
                       /\ exec.calls = << >>

\* C22, witness: new() resolved the screen, the native constructor returned
\* null for it, and new() returned InvalidReference after that one call
C22_Witness ==
    /\ CtorReturned
    /\ exec.entry = NEW_FN
    /\ exec.scr_act = OkVal(SCREEN)
    /\ exec.native_null[SCREEN]
    /\ ~exec.native_null[USER_PARENT]
    /\ Len(exec.calls) = 1
    /\ exec.calls[1].args = <<SCREEN>>
    /\ exec.result = Some(ErrVal("InvalidReference"))

---------------------------------------------------------------------------
(* Properties of the native call and of the parameters (checked under       *)
(* SpecLower)                                                                *)

\* the native call statement of an operation
TheCall(op) == op.body[CHOOSE k \in DOMAIN op.body : op.body[k].kind = "call"]

OtherPointer(lit, q) ==
    /\ StartsWith(lit, q)
    /\ LET T == SubSeq(lit, Len(q) + 1, Len(lit))
       IN  /\ T \notin {Spaced(<<CTY, COLON2, C_CHAR>>), LV_OBJ_T, ULV_OBJ_T, VOID_NAME}
           /\ ~StartsWith(T, STAR)

\* parameter i is declared under its name with the type `<ref> ty` and the
\* native call receives the bare name
DeclaredAndPassedBare(i, ref, ty) ==
    LET op == lowered.ops[1]
        call == TheCall(op)
    IN  /\ op.params[i].typ = TypeForm("path", ref, ty)
        /\ NamedAs(op.params[i].name, func.args[i])
        /\ NamedAs(call.args[i].ident, func.args[i])
        /\ call.args[i].access = ""

\* the lowering C24 states of parameter i
OtherPointerOrValueLowering(i) ==
    LET lit == func.args[i].typ
    IN  /\ OtherPointer(lit, STAR_MUT_SP) =>
               DeclaredAndPassedBare(i, "&mut", SubSeq(lit, Len(STAR_MUT_SP) + 1, Len(lit)))
        /\ OtherPointer(lit, STAR_CONST_SP) =>
               DeclaredAndPassedBare(i, "&", SubSeq(lit, Len(STAR_CONST_SP) + 1, Len(lit)))
        /\ ~StartsWith(lit, STAR) => DeclaredAndPassedBare(i, "", lit)

Stripped(lit) == StrRemoveAll(StrRemoveAll(lit, STAR_CONST_SP), STAR_MUT_SP)

\* the parameter shapes that are answered with Skip
IsArrayParameter(lit) == StartsWith(lit, ARRAY_PREFIX)
IsVoidParameter(lit) == ~IsArrayParameter(lit) /\ Stripped(lit) = VOID_NAME

\* the literal matches no string, object, array or void pattern and what is
\* left of it after the qualifiers are stripped is not a type path
ParameterFailsParsing(lit) ==
    /\ lit \notin {CONST_STR, MUT_STR, CONST_OBJ, CONST_OBJ_ALT, MUT_OBJ, MUT_OBJ_ALT}
    /\ ~IsArrayParameter(lit)
    /\ ~IsVoidParameter(lit)
    /\ (Stripped(lit) = << >> \/ Head(Stripped(lit)) \in {"*", "[", "(", "&", "!"})

\* the return literal is no pointer and does not parse
ReturnFailsParsing ==
    /\ func.ret # None
    /\ Head(func.ret[1]) # "*"
    /\ \/ CountChar(func.ret[1], "[") # CountChar(func.ret[1], "]")
       \/ CountChar(func.ret[1], "(") # CountChar(func.ret[1], ")")

ReturnsPointer == func.ret # None /\ Head(func.ret[1]) = "*"

\* the parameters after the receiver
AfterReceiver == { i \in DOMAIN func.args : i >= 2 }

\* Skip is returned only for a pointer return, an array parameter or a
\* parameter whose stripped literal is the void type
SkipOnlyForUnsupported ==
    (pc = "lowered" /\ lowered.status = "skip") =>
        \/ ReturnsPointer
        \/ \E i \in AfterReceiver :
               IsArrayParameter(func.args[i].typ) \/ IsVoidParameter(func.args[i].typ)

\* C25, as stated: when a non-pointer return type literal, or the
\* qualifier-stripped literal of a parameter that matched no
\* string/object/array/void pattern, fails structured parsing, lowering aborts
\* the whole run and returns neither an operation nor Skip; Skip is returned
\* only for a pointer return, an array parameter or a void-pointer parameter.
C25_ParseFailureAlwaysFatal ==
    /\ (/\ pc = "lowered"
        /\ \/ ReturnFailsParsing
           \/ \E i \in AfterReceiver : ParameterFailsParsing(func.args[i].typ))
           => lowered.status = "panic"
    /\ SkipOnlyForUnsupported

\* C25, amended: on the generic path lowering aborts when the non-pointer
\* return literal fails parsing, and when the return is no pointer and the
\* first parameter after the receiver that is not lowerable is one that fails
\* parsing (the return is examined first, then the parameters in order, so a
\* pointer return or an earlier array or void parameter gives Skip instead);
\* the constructor path parses no type and never aborts; Skip is returned only
\* for a pointer return, an array parameter or a void parameter.
C25_ParseFailureFatalInOrder ==
    /\ (OffConstructorPath /\ ReturnFailsParsing) => lowered.status = "panic"
    /\ (OffConstructorPath /\ ~ReturnsPointer) =>
           \A i \in AfterReceiver :
               (/\ ParameterFailsParsing(func.args[i].typ)
                /\ \A j \in AfterReceiver :
                       j < i => /\ ~IsArrayParameter(func.args[j].typ)
                                /\ ~IsVoidParameter(func.args[j].typ))
                   => lowered.status = "panic"
    /\ OnConstructorPath => lowered.status = "ok"
    /\ SkipOnlyForUnsupported

\* C25, witness: lv_a_x(obj, buf: [u8 ; 4]) -> u16 made the lowering abort
C25_Witness ==
    /\ pc = "lowered"
    /\ func.name = N_A_X
    /\ Len(func.args) = 2
    /\ func.args[2].typ = U8_ARRAY
    /\ func.ret = Some(U16)
    /\ lowered.status = "panic"
    /\ lowered.ops = << >>

\* the native call statements of an operation
NativeCalls(op) == { op.body[k] : k \in StepsOfKind(op.body, "call") }

\* the call passes one argument for each parameter of the declaration, in
\* declaration order: the receiver (or the constructor's parent) for
\* parameter 0, the parameter's own identifier for every other
PassesEveryParameter(call) ==
    /\ Len(call.args) = Len(func.args)
    /\ \A i \in DOMAIN func.args :
           IF i = 1 THEN call.args[i].ident \in {SelfIdent, Ident("parent", "", FALSE)}
           ELSE call.args[i].ident.text = func.args[i].name

\* C26, as stated: for every emitted operation, the native call passes exactly
\* as many arguments as the declaration has parameters, in declaration order
\* (argument i is derived from parameter i).
C26_CallArityEveryOperation ==
    (pc = "lowered" /\ lowered.status = "ok") =>
        \A o \in DOMAIN lowered.ops :
            \A call \in NativeCalls(lowered.ops[o]) : PassesEveryParameter(call)

\* C26, amended: for every operation emitted on the generic path, the native
\* call passes exactly as many arguments as the declaration has parameters, in
\* declaration order; the synthesized `create` passes exactly one argument, the
\* handle of its own `parent`, whatever the declaration's parameters are, and
\* the synthesized `new` makes no native call of its own.
C26_CallArityGenericPath ==
    /\ LoweredGeneric =>
           /\ Cardinality(StepsOfKind(lowered.ops[1].body, "call")) = 1
           /\ \A call \in NativeCalls(lowered.ops[1]) :
                  /\ PassesEveryParameter(call)
                  /\ func.args # << >> => call.args[1].ident = SelfIdent
    /\ (OnConstructorPath /\ lowered.status = "ok") =>
           /\ Len(lowered.ops) = 2
           /\ \A call \in NativeCalls(lowered.ops[1]) :
                  call.args = << Usage(Ident("parent", "", FALSE), ".raw().as_mut()") >>
           /\ Cardinality(StepsOfKind(lowered.ops[1].body, "call")) = 1
           /\ NativeCalls(lowered.ops[2]) = {}

\* C26, witness: a declaration with three parameters was lowered on the
\* generic path and its call passes self, `buf` and `type`
C26_Witness ==
    /\ LoweredGeneric
    /\ Len(func.args) = 3
    /\ func.args[2].typ = CONST_STR
    /\ func.args[3].typ = U16
    /\ Len(TheCall(lowered.ops[1]).args) = 3
    /\ TheCall(lowered.ops[1]).args[1].ident = SelfIdent
    /\ TheCall(lowered.ops[1]).args[2].ident.text = "buf"
    /\ TheCall(lowered.ops[1]).args[3].ident.text = "type"

---------------------------------------------------------------------------
(* Properties of the widget set and of the names in a module (checked under *)
(* Spec)                                                                     *)

\* the declarations of the input have pairwise distinct names
DistinctNames ==
    \A i, j \in DOMAIN functions : i # j => functions[i].name # functions[j].name

\* C27: for every input whose declarations have pairwise distinct names, no
\* two operations emitted into the same widget module share an identifier
\* (the synthesized `create` and `new` included).
C27_UniqueOperationNames ==
    (Rendered /\ DistinctNames) =>
        \A m \in DOMAIN modules :
            modules[m].status = "ok" =>
                \A o1, o2 \in DOMAIN modules[m].ops :
                    o1 # o2 => modules[m].ops[o1].ident # modules[m].ops[o2].ident

\* how often declaration value f stands in the list
Occurrences(list, f) == Cardinality({ k \in DOMAIN list : list[k] = f })

\* C28: for every declaration list, each declaration (by its position in the
\* list) occurs at most once in the method list of any one widget returned by
\* extract_widgets, even when the same `lv_X_create` name is discovered more
\* than once: a widget holds a declaration no more often than the list does.
C28_NoDuplicateAttachment ==
    Extracted =>
        \A i \in DOMAIN widgets : \A k \in DOMAIN functions :
            Occurrences(widgets[i].methods, functions[k]) <= Occurrences(functions, functions[k])

\* the grouping predicate of extract_widgets, written on the texts
Groups(f, W) == HasTextPrefix(f.name, LIB_PREFIX \o W) /\ FirstParamIsObject(f)

\* C29: every widget returned by extract_widgets has a name that
\* get_widget_names discovered and a non-empty method list, no two returned
\* widgets have the same name, and a discovered name for which no declaration
\* satisfies the grouping predicate yields no widget at all.
C29_WidgetSetShape ==
    Extracted =>
        /\ \A i \in DOMAIN widgets :
               /\ widgets[i].name \in Range(widget_names)
               /\ widgets[i].methods # << >>
        /\ \A i, j \in DOMAIN widgets : i # j => widgets[i].name # widgets[j].name
        /\ \A W \in Range(widget_names) :
               (\A k \in DOMAIN functions : ~Groups(functions[k], W))
                   => \A i \in DOMAIN widgets : widgets[i].name # W

\* C29, witness: `obj` and `a` were discovered, lv_obj_create(obj: u16) is no
\* method and nothing else has the prefix lv_obj, so only widget `a` came out
C29_Witness ==
    /\ Extracted
    /\ widget_names = << OBJ, WA >>
    /\ functions[1] = LvFuncNew(N_OBJ_CREATE, MkArgs(<<U16>>), None)
    /\ Len(widgets) = 1
    /\ widgets[1].name = WA
    /\ Len(widgets[1].methods) = 1

=============================================================================
